---- MODULE Spec2Model ----
(***************************************************************************)
(* The IR traversal engine of ir/visitor.cpp: the two visit trackers       *)
(* (Visitor::Tracker, Visitor::ChangeTracker), the context stack           *)
(* (PushContext) and the three apply_visitor disciplines (Inspector,       *)
(* Modifier, Transform), run on small IR graphs.                           *)
(*                                                                         *)
(* The recursive descent is modelled with an explicit stack of frames;     *)
(* every frame is one active apply_visitor call (its Context plus its      *)
(* locals) and `pc` is the position of that call.  The user hooks          *)
(* (preorder, postorder, ...) are inputs: each call of a hook chooses its  *)
(* behaviour nondeterministically from a small set.                        *)
(***************************************************************************)
EXTENDS Integers, Sequences, FiniteSets, TLC

(* ------------------------------ bounds -------------------------------- *)
\* number of nodes of the input graph
NumOrig == 3
\* child slots per node, at most
MaxKids == 2
\* non-null child pointers in the input graph, at most
MaxEdges == 3
\* null child slots in the input graph, at most
MaxNulls == 0
\* nodes on the heap (input nodes plus clones and hook-made nodes), at most
MaxHeap == 10
\* hook calls that rewrite (edit a clone, return null or a substitute), per apply
MaxRewrites == 1
\* hook calls to visitOnce / visitAgain / revisit_visited, per apply
MaxFlagOps == 1

\* the depth at which PushContext gives up
MaxContextDepth == 10000
\* the chains of the deep descent are this much shorter and longer than that
ChainSlack == 1

Null == 0
Root == 1
Nodes == 1..NumOrig
Tags == {0, 1}
\* the ghost record of a call that has not been made
NoCall == [n |-> Null]

VARIABLES
    disc,             \* "Inspector" | "Modifier" | "Transform": the visitor's class
    visitDagOnce,     \* Visitor::visitDagOnce
    forceClone,       \* Modifier/Transform::forceClone
    dontForward,      \* Visitor::dontForwardChildrenBeforePreorder
    heap,             \* the IR nodes: heap[id] = [tag, kids]; id is the node's identity
    input,            \* ghost: the heap the pass was given
    originOf,         \* ghost: originOf[id] = the input node id was cloned/made for
    live,             \* the visitor holds a tracker (`visited` is non-null)
    visited,          \* the tracker's map, node -> entry
    stack,            \* the active apply_visitor calls, outermost first
    prune_flag,       \* Transform::prune_flag
    phase,            \* "idle" | "run" | "done" | "bug"
    bugMsg,           \* the BUG() that aborted the pass, "" if none
    rootResult,       \* what the outermost apply_visitor returned
    log,              \* ghost: the hook calls and apply_visitor entries/returns
    lastTry,          \* ghost: the last try_start call
    lastFin,          \* ghost: the last ChangeTracker::finish call
    rewrites,         \* ghost: rewriting hook calls so far
    flagOps,          \* ghost: flag-changing hook calls so far
    chainLen,         \* the length of the chain of nodes a deep descent walks
    ctxtDepth,        \* that descent's ctxt->depth (0: no context)
    BackwardsCompatibleBroken,  \* ControlFlowVisitor::BackwardsCompatibleBroken
    flow_join_points, \* ControlFlowVisitor::flow_join_points: node -> join record
    flowOf,           \* the data-flow state of each visitor object (1: the visitor
                      \* applied, 2..: its flow clones)
    splitNodes,       \* the nodes whose visit_children splits the control flow
    filtered,         \* the nodes for which filter_join_point answers true
    applies,          \* top-level applies of the visitor object begun so far
    refMap,           \* ResolveReferences::refMap: program, bindings, used names
    diags,            \* the calls of ::P4::error and ::P4::warning so far, in order
    anyOrder,         \* ResolutionContext::anyOrder
    checkShadow,      \* ResolveReferences::checkShadow
    driver            \* a compiler driver: which main() runs, where it stands, the
                      \* error count, the program it holds, its exit status

vars == <<disc, visitDagOnce, forceClone, dontForward, heap, input, originOf, live, visited,
          stack, prune_flag, phase, bugMsg, rootResult, log, lastTry, lastFin,
          rewrites, flagOps, chainLen, ctxtDepth, BackwardsCompatibleBroken,
          flow_join_points, flowOf, splitNodes, filtered, applies, refMap, diags,
          anyOrder, checkShadow, driver>>

\* the state of the deep descent and of the control-flow join, which the passes of
\* the plain visitor classes over the small graphs leave alone
flowVars == <<BackwardsCompatibleBroken, flow_join_points, flowOf, splitNodes, filtered>>

\* the state of the reference resolver, which the other visitors leave alone
resVars == <<refMap, diags, anyOrder, checkShadow>>

sideVars == <<chainLen, ctxtDepth, flowVars, applies, resVars, driver>>

\* a reference map after clear(): no program, no binding, no used name
ClearedMap(isv1) ==
    [program |-> Null, decls |-> <<>>, thisDecls |-> <<>>, used |-> {}, v1 |-> isv1]

\* no driver runs: the visitor is applied on its own
NoDriver == driver = [tool |-> "none"]

\* no resolver is at work
NoResolver ==
    /\ refMap = ClearedMap(FALSE)
    /\ diags = <<>>
    /\ anyOrder = FALSE
    /\ checkShadow = FALSE

(* --------------------------- the input graphs ------------------------- *)
KidSeqs == UNION {[1..k -> Nodes \cup {Null}] : k \in 0..MaxKids}

NonNull(ks) == {ks[i] : i \in DOMAIN ks} \ {Null}

EdgeCount(g) ==
    LET cnt[n \in 0..NumOrig] ==
            IF n = 0 THEN 0
            ELSE cnt[n - 1] + Cardinality({i \in DOMAIN g[n] : g[n][i] # Null})
    IN cnt[NumOrig]

NullCount(g) ==
    LET cnt[n \in 0..NumOrig] ==
            IF n = 0 THEN 0
            ELSE cnt[n - 1] + Cardinality({i \in DOMAIN g[n] : g[n][i] = Null})
    IN cnt[NumOrig]

\* the nodes reachable from `from` through child slots, in a kids-function g
RECURSIVE ReachFrom(_, _, _)
ReachFrom(g, seen, frontier) ==
    IF frontier = {} THEN seen
    ELSE LET next == (UNION {NonNull(g[n]) : n \in frontier}) \ (seen \cup frontier)
         IN ReachFrom(g, seen \cup frontier, next)

Reach(g, n) == ReachFrom(g, {}, {n})

\* the nodes in the order a depth-first descent from n first meets them
RECURSIVE DfsOrder(_, _, _)
DfsOrder(g, n, seen) ==
    IF n = Null \/ \E i \in DOMAIN seen : seen[i] = n THEN seen
    ELSE LET kids[i \in 0..Len(g[n])] ==
                 IF i = 0 THEN Append(seen, n)
                 ELSE DfsOrder(g, g[n][i], kids[i - 1])
         IN kids[Len(g[n])]

Graphs == {g \in [Nodes -> KidSeqs] :
              /\ EdgeCount(g) <= MaxEdges
              /\ NullCount(g) <= MaxNulls
              /\ Reach(g, Root) = Nodes
              \* nodes are numbered in the order a descent first meets them
              /\ DfsOrder(g, Root, <<>>) = [i \in Nodes |-> i]}

KidsOf(h) == [i \in DOMAIN h |-> h[i].kids]

(* ---------------------- node algebra (IR::Node) ----------------------- *)
\* IR::Node::clone(): a new identity with the same fields and child pointers
Clone(h, n) == Append(h, h[n])

\* IR::Node::operator==: structural equality; identity is ignored, child order is
\* respected.  The comparison is deep; `fuel` bounds the descent.
RECURSIVE NodeEqUpTo(_, _, _, _)
NodeEqUpTo(h, a, b, fuel) ==
    \/ a = b
    \/ /\ a # Null /\ b # Null
       /\ h[a].tag = h[b].tag
       /\ Len(h[a].kids) = Len(h[b].kids)
       /\ \/ fuel = 0
          \/ \A i \in DOMAIN h[a].kids :
                 NodeEqUpTo(h, h[a].kids[i], h[b].kids[i], fuel - 1)

NodeEq(h, a, b) == NodeEqUpTo(h, a, b, NumOrig)

(* ----------------------- Visitor::Tracker ----------------------------- *)
Emplace(v, n, e) == IF n \in DOMAIN v THEN v ELSE (n :> e) @@ v

\* (mutant) a finished node is reopened whatever its visitOnce flag says
TrackerTryStart_Reopen(v, n, defaultVisitOnce) ==
    IF n \notin DOMAIN v
    THEN [status |-> "New",
          visited |-> Emplace(v, n, [done |-> FALSE, visitOnce |-> defaultVisitOnce])]
    ELSE IF ~v[n].done THEN [status |-> "Busy", visited |-> v]
    ELSE [status |-> "Revisit", visited |-> [v EXCEPT ![n].done = FALSE]]

\* (mutant) a node whose visit is in progress is taken for a finished one
TrackerTryStart_NoBusy(v, n, defaultVisitOnce) ==
    IF n \notin DOMAIN v
    THEN [status |-> "New",
          visited |-> Emplace(v, n, [done |-> FALSE, visitOnce |-> defaultVisitOnce])]
    ELSE IF v[n].done /\ v[n].visitOnce THEN [status |-> "Done", visited |-> v]
    ELSE [status |-> "Revisit", visited |-> [v EXCEPT ![n].done = FALSE]]

TrackerTryStart(v, n, defaultVisitOnce) ==
    IF n \notin DOMAIN v
    THEN [status |-> "New",
          visited |-> Emplace(v, n, [done |-> FALSE, visitOnce |-> defaultVisitOnce])]
    ELSE IF ~v[n].done THEN [status |-> "Busy", visited |-> v]
    ELSE IF v[n].visitOnce THEN [status |-> "Done", visited |-> v]
    ELSE [status |-> "Revisit", visited |-> [v EXCEPT ![n].done = FALSE]]

TrackerFinish(v, n) == [v EXCEPT ![n].done = TRUE]

\* (mutant) revisit_visited forgets every node, the ones in progress too
TrackerRevisitVisited_All(v) == <<>>

\* Tracker::revisit_visited: the finished entries are erased
TrackerRevisitVisited(v) == [n \in {m \in DOMAIN v : ~v[m].done} |-> v[n]]

TrackerVisitOnce(v, n) == [v EXCEPT ![n].visitOnce = TRUE]

TrackerVisitAgain(v, n) == [v EXCEPT ![n].visitOnce = FALSE]

TrackerDone(v, n) == n \in DOMAIN v /\ v[n].done /\ v[n].visitOnce

TrackerBusy(v, n) == n \in DOMAIN v /\ ~v[n].done

(* ----------------------- Visitor::ChangeTracker ----------------------- *)
\* (mutant) a reopened entry is not marked in progress again
ChangeTrackerTryStart_NoMark(v, n, defaultVisitOnce) ==
    IF n \notin DOMAIN v
    THEN [status |-> "New",
          visited |-> Emplace(v, n, [visit_in_progress |-> TRUE,
                                     visitOnce |-> defaultVisitOnce, result |-> n])]
    ELSE IF v[n].visit_in_progress THEN [status |-> "Busy", visited |-> v]
    ELSE IF v[n].visitOnce THEN [status |-> "Done", visited |-> v]
    ELSE [status |-> "Revisit", visited |-> v]

\* (mutant) an entry in progress is reopened like a finished one
ChangeTrackerTryStart_NoBusy(v, n, defaultVisitOnce) ==
    IF n \notin DOMAIN v
    THEN [status |-> "New",
          visited |-> Emplace(v, n, [visit_in_progress |-> TRUE,
                                     visitOnce |-> defaultVisitOnce, result |-> n])]
    ELSE IF ~v[n].visit_in_progress /\ v[n].visitOnce
    THEN [status |-> "Done", visited |-> v]
    ELSE [status |-> "Revisit", visited |-> [v EXCEPT ![n].visit_in_progress = TRUE]]

\* ChangeTracker::try_start
ChangeTrackerTryStart(v, n, defaultVisitOnce) ==
    IF n \notin DOMAIN v
    THEN [status |-> "New",
          visited |-> Emplace(v, n, [visit_in_progress |-> TRUE,
                                     visitOnce |-> defaultVisitOnce, result |-> n])]
    ELSE IF v[n].visit_in_progress THEN [status |-> "Busy", visited |-> v]
    ELSE IF v[n].visitOnce THEN [status |-> "Done", visited |-> v]
    ELSE [status |-> "Revisit", visited |-> [v EXCEPT ![n].visit_in_progress = TRUE]]

\* (mutant) finish without the structural comparison: any other node is a change
ChangeTrackerFinish_NoEq(v, orig, final, force, h) ==
    IF orig \notin DOMAIN v
    THEN [ret |-> FALSE, visited |-> v, bug |-> TRUE]
    ELSE LET v1 == [v EXCEPT ![orig].visit_in_progress = FALSE]
         IN IF final = Null
            THEN [ret |-> TRUE, visited |-> [v1 EXCEPT ![orig].result = Null],
                  bug |-> FALSE]
            ELSE IF force \/ final # orig
            THEN [ret |-> TRUE,
                  visited |-> Emplace([v1 EXCEPT ![orig].result = final], final,
                                      [visit_in_progress |-> FALSE,
                                       visitOnce |-> v1[orig].visitOnce,
                                       result |-> final]),
                  bug |-> FALSE]
            ELSE IF final \in DOMAIN v1
            THEN [ret |-> TRUE, visited |-> [v1 EXCEPT ![orig].result = final],
                  bug |-> FALSE]
            ELSE [ret |-> FALSE, visited |-> v1, bug |-> FALSE]

\* (mutant) the entry made for a new final node is always visit-once
ChangeTrackerFinish_Once(v, orig, final, force, h) ==
    IF orig \notin DOMAIN v
    THEN [ret |-> FALSE, visited |-> v, bug |-> TRUE]
    ELSE LET v1 == [v EXCEPT ![orig].visit_in_progress = FALSE]
         IN IF final = Null
            THEN [ret |-> TRUE, visited |-> [v1 EXCEPT ![orig].result = Null],
                  bug |-> FALSE]
            ELSE IF force \/ (final # orig /\ ~NodeEq(h, final, orig))
            THEN [ret |-> TRUE,
                  visited |-> Emplace([v1 EXCEPT ![orig].result = final], final,
                                      [visit_in_progress |-> FALSE,
                                       visitOnce |-> TRUE,
                                       result |-> final]),
                  bug |-> FALSE]
            ELSE IF final \in DOMAIN v1
            THEN [ret |-> TRUE, visited |-> [v1 EXCEPT ![orig].result = final],
                  bug |-> FALSE]
            ELSE [ret |-> FALSE, visited |-> v1, bug |-> FALSE]

\* (mutant) finish that does not look at forceClone
ChangeTrackerFinish_NoForce(v, orig, final, force, h) ==
    IF orig \notin DOMAIN v
    THEN [ret |-> FALSE, visited |-> v, bug |-> TRUE]
    ELSE LET v1 == [v EXCEPT ![orig].visit_in_progress = FALSE]
         IN IF final = Null
            THEN [ret |-> TRUE, visited |-> [v1 EXCEPT ![orig].result = Null],
                  bug |-> FALSE]
            ELSE IF final # orig /\ ~NodeEq(h, final, orig)
            THEN [ret |-> TRUE,
                  visited |-> Emplace([v1 EXCEPT ![orig].result = final], final,
                                      [visit_in_progress |-> FALSE,
                                       visitOnce |-> v1[orig].visitOnce,
                                       result |-> final]),
                  bug |-> FALSE]
            ELSE IF final \in DOMAIN v1
            THEN [ret |-> TRUE, visited |-> [v1 EXCEPT ![orig].result = final],
                  bug |-> FALSE]
            ELSE [ret |-> FALSE, visited |-> v1, bug |-> FALSE]

\* ChangeTracker::finish(orig, final) on the nodes of heap h; ret is the value
\* returned, bug is set when the BUG() of a missing entry fires
ChangeTrackerFinish(v, orig, final, force, h) ==
    IF orig \notin DOMAIN v
    THEN [ret |-> FALSE, visited |-> v, bug |-> TRUE]
    ELSE LET v1 == [v EXCEPT ![orig].visit_in_progress = FALSE]
         IN IF final = Null
            THEN [ret |-> TRUE, visited |-> [v1 EXCEPT ![orig].result = Null],
                  bug |-> FALSE]
            ELSE IF force \/ (final # orig /\ ~NodeEq(h, final, orig))
            THEN [ret |-> TRUE,
                  visited |-> Emplace([v1 EXCEPT ![orig].result = final], final,
                                      [visit_in_progress |-> FALSE,
                                       visitOnce |-> v1[orig].visitOnce,
                                       result |-> final]),
                  bug |-> FALSE]
            ELSE IF final \in DOMAIN v1
            THEN [ret |-> TRUE, visited |-> [v1 EXCEPT ![orig].result = final],
                  bug |-> FALSE]
            ELSE [ret |-> FALSE, visited |-> v1, bug |-> FALSE]

ChangeTrackerShouldVisitOnce(v, n) == v[n].visitOnce

\* (mutant) revisit_visited forgets the nodes in progress as well
ChangeTrackerRevisitVisited_All(v) == <<>>

\* ChangeTracker::revisit_visited: the entries not in progress are erased
ChangeTrackerRevisitVisited(v) ==
    [n \in {m \in DOMAIN v : v[m].visit_in_progress} |-> v[n]]

ChangeTrackerBusy(v, n) == n \in DOMAIN v /\ v[n].visit_in_progress

ChangeTrackerDone(v, n) ==
    n \in DOMAIN v /\ ~v[n].visit_in_progress /\ v[n].visitOnce

\* (mutant) the node itself stands for its result
ChangeTrackerResult_Self(v, n) == n

\* ChangeTracker::result
ChangeTrackerResult(v, n) == IF n \notin DOMAIN v THEN n ELSE v[n].result

ChangeTrackerFinalResult(v, n) ==
    IF ChangeTrackerDone(v, n) THEN v[n].result ELSE Null

\* (mutant) visitOnce that leaves the flag as it is
ChangeTrackerVisitOnce_Noop(v, n) == v

\* ChangeTracker::visitOnce
ChangeTrackerVisitOnce(v, n) == [v EXCEPT ![n].visitOnce = TRUE]

ChangeTrackerVisitAgain(v, n) == [v EXCEPT ![n].visitOnce = FALSE]

(* ------------------------ the context stack --------------------------- *)
NoFrame == <<>>

\* PushContext::PushContext: the depth of a frame pushed on a context of depth d
\* (0: no context)
PushDepth(d) == IF d = 0 THEN 1 ELSE d + 1

\* (mutant) the limit is checked one frame late
DepthAsserted_Late(d) == d <= MaxContextDepth

\* PushContext::PushContext: assert(current.depth < 10000)
DepthAsserted(d) == d < MaxContextDepth

\* PushContext::PushContext: a new Context for `node` on top of the stack
PushContext(stk, node) ==
    Append(stk, [original |-> node, node |-> node, child_index |-> 0,
                 child_name |-> 0,
                 depth |-> PushDepth(IF stk = <<>> THEN 0 ELSE stk[Len(stk)].depth),
                 pc |-> "pre", pre |-> Null, extra |-> FALSE, save_prune |-> FALSE])

Top == stack[Len(stack)]

\* the call the running visit_children (or the top-level apply) makes next:
\* the node passed and the slot's name (slot i is named i; the root call has no name)
Pending ==
    IF stack = <<>> THEN [n |-> Root, name |-> 0, slot |-> 0]
    ELSE [n |-> heap[Top.node].kids[Top.child_index + 1],
          name |-> Top.child_index + 1, slot |-> Top.child_index + 1]

CanCall ==
    /\ phase = "run"
    /\ \/ stack = <<>> /\ rootResult = Null /\ log = <<>>
       \/ /\ stack # <<>>
          /\ Top.pc = "kids"
          /\ Top.child_index < Len(heap[Top.node].kids)

Ev(t, n, d, a, r, k) == [t |-> t, n |-> n, d |-> d, a |-> a, r |-> r, k |-> k]

\* the caller's side of a return (Visitor::visit): the slot takes the returned node;
\* apply_visitor itself has already set child_name and counted the child
SetSlot(h, stk, slot, r) ==
    IF stk = <<>> THEN h
    ELSE [h EXCEPT ![stk[Len(stk)].node].kids[slot] = r]

\* (mutant) the returned child is not counted
CallerAfter_NoCount(stk, name) ==
    IF stk = <<>> THEN stk
    ELSE [stk EXCEPT ![Len(stk)].child_name = name]

CallerAfter(stk, name) ==
    IF stk = <<>> THEN stk
    ELSE [stk EXCEPT ![Len(stk)].child_name = name,
                     ![Len(stk)].child_index = @ + 1]

FlagOpsOf(budgetLeft) ==
    IF budgetLeft THEN {"none", "visitOnce", "visitAgain", "revisit_visited"}
    ELSE {"none"}

(* --------------------------- Inspector -------------------------------- *)
\* Inspector::init_apply: a fresh Tracker, an empty context
InspectorInitApply ==
    /\ phase = "idle" /\ disc = "Inspector"
    /\ phase' = "run"
    /\ live' = TRUE
    /\ visited' = <<>>
    /\ stack' = <<>>
    /\ UNCHANGED <<input, disc, visitDagOnce, forceClone, dontForward, heap, originOf,
                   prune_flag, bugMsg, rootResult, log, lastTry, lastFin, rewrites,
                   flagOps>>
    /\ UNCHANGED sideVars

\* (mutant) the Done case returns the tracker's answer, as the rewriting classes do
InspectorReturn_Mut(n, st) == IF st = "Done" THEN Null ELSE n

\* what Inspector::apply_visitor returns for n
InspectorReturn(n, st) == n

\* the end of apply_visitor (the same in the three classes): the frame is popped,
\* the parent's child is counted, the tracker is released if this was the
\* outermost call; `stk` is the stack below the returning call
Leave(stk, h, v, call, r, evs) ==
    /\ stack' = CallerAfter(stk, call.name)
    /\ heap' = SetSlot(h, stk, call.slot, r)
    /\ visited' = IF stk = <<>> THEN <<>> ELSE v
    /\ live' = (stk # <<>>)
    /\ phase' = IF stk = <<>> THEN "done" ELSE phase
    /\ rootResult' = IF stk = <<>> THEN r ELSE rootResult
    /\ log' = log \o evs

\* Inspector::apply_visitor up to the dispatch on the node's status; the Busy and
\* Done cases (and a null node) run to the return
InspectorEnter ==
    /\ disc = "Inspector" /\ CanCall
    /\ LET call == Pending
           n == call.n
           d == Len(stack) + 1
       IN IF n = Null
          THEN /\ Leave(stack, heap, visited, call, Null,
                                 <<Ev("null", Null, d, call.slot, Null, <<>>)>>)
               /\ UNCHANGED lastTry
          ELSE LET ts == TrackerTryStart(visited, n, visitDagOnce)
                   r == InspectorReturn(n, ts.status)
                   enter == Ev("enter", n, d, call.slot, Null, <<>>)
               IN /\ lastTry' = [n |-> n, v |-> visitDagOnce, before |-> visited,
                                 status |-> ts.status, after |-> ts.visited]
                  /\ CASE ts.status = "Busy" ->
                            Leave(stack, heap, ts.visited, call, r,
                                <<enter, Ev("loop_revisit", n, d, 0, Null, <<>>),
                                  Ev("ret", n, d, call.slot, r, <<>>)>>)
                       [] ts.status = "Done" ->
                            Leave(stack, heap, ts.visited, call, r,
                                <<enter, Ev("revisit", n, d, 0, Null, <<>>),
                                  Ev("ret", n, d, call.slot, r, <<>>)>>)
                       [] OTHER ->
                            /\ stack' = PushContext(
                                   IF stack = <<>> THEN stack
                                   ELSE [stack EXCEPT ![Len(stack)].child_name = call.name],
                                   n)
                            /\ visited' = ts.visited
                            /\ log' = Append(log, enter)
                            /\ UNCHANGED <<heap, live, phase, rootResult>>
    /\ UNCHANGED <<input, disc, visitDagOnce, forceClone, dontForward, originOf, prune_flag,
                   bugMsg, lastFin, rewrites, flagOps>>
    /\ UNCHANGED sideVars

\* the effect of a flag-changing call made from inside a hook of an Inspector
InspectorFlagOp(v, op, orig) ==
    CASE op = "visitOnce" -> TrackerVisitOnce(v, orig)
      [] op = "visitAgain" -> TrackerVisitAgain(v, orig)
      [] op = "revisit_visited" -> TrackerRevisitVisited(v)
      [] OTHER -> v

\* whether the children and postorder run, given what preorder returned
InspectorDescends(ret) == ret

\* the slot the frame's return is delivered to
SlotOf(stk) == IF Len(stk) = 1 THEN 0 ELSE stk[Len(stk) - 1].child_index + 1

\* Inspector::apply_visitor, New/Revisit: preorder; if it returns false the visit
\* is finished at once
InspectorPreorder ==
    /\ disc = "Inspector" /\ phase = "run" /\ stack # <<>> /\ Top.pc = "pre"
    /\ \E ret \in BOOLEAN, op \in FlagOpsOf(flagOps < MaxFlagOps) :
         LET n == Top.original
             d == Len(stack)
             v1 == InspectorFlagOp(visited, op, n)
             pre == Ev("preorder", n, d, <<op, "keep", ~ret, FALSE>>, n, heap[n].kids)
             below == SubSeq(stack, 1, Len(stack) - 1)
             call == [n |-> n, name |-> SlotOf(stack), slot |-> SlotOf(stack)]
         IN /\ flagOps' = IF op = "none" THEN flagOps ELSE flagOps + 1
            /\ IF InspectorDescends(ret)
               THEN /\ stack' = [stack EXCEPT ![Len(stack)].pc = "kids",
                                             ![Len(stack)].pre = ret]
                    /\ visited' = v1
                    /\ log' = Append(log, pre)
                    /\ UNCHANGED <<heap, live, phase, rootResult>>
               ELSE Leave(below, heap, TrackerFinish(v1, n), call,
                                   InspectorReturn(n, "New"),
                                   <<pre, Ev("ret", n, d, call.slot,
                                             InspectorReturn(n, "New"), <<>>)>>)
    /\ UNCHANGED <<input, disc, visitDagOnce, forceClone, dontForward, originOf, prune_flag,
                   bugMsg, lastTry, lastFin, rewrites>>
    /\ UNCHANGED sideVars

\* Inspector::apply_visitor, New/Revisit: after the last child, postorder, finish
\* and the return
InspectorPostorder ==
    /\ disc = "Inspector" /\ phase = "run" /\ stack # <<>> /\ Top.pc = "kids"
    /\ Top.child_index >= Len(heap[Top.node].kids)
    /\ LET n == Top.original
           d == Len(stack)
           below == SubSeq(stack, 1, Len(stack) - 1)
           call == [n |-> n, name |-> SlotOf(stack), slot |-> SlotOf(stack)]
           r == InspectorReturn(n, "New")
       IN Leave(below, heap, TrackerFinish(visited, n), call, r,
                         <<Ev("postorder", n, d, <<"none", "keep", FALSE, FALSE>>, n, heap[n].kids),
                           Ev("ret", n, d, call.slot, r, <<>>)>>)
    /\ UNCHANGED <<input, disc, visitDagOnce, forceClone, dontForward, originOf, prune_flag,
                   bugMsg, lastTry, lastFin, rewrites, flagOps>>
    /\ UNCHANGED sideVars

(* ------------------ the parts Modifier and Transform share ------------ *)
\* ForwardChildren::apply_visitor on every child slot of node c (visit_children):
\* a child whose visit is done is replaced by its final result
ForwardChildren(h, v, c) ==
    [h EXCEPT ![c].kids =
        [i \in DOMAIN h[c].kids |->
            LET k == h[c].kids[i]
                r == IF k = Null THEN Null ELSE ChangeTrackerFinalResult(v, k)
            IN IF r # Null THEN r ELSE k]]

\* the effect of a flag-changing call made from inside a hook of a Modifier or
\* Transform
ChangeFlagOp(v, op, orig) ==
    CASE op = "visitOnce" -> ChangeTrackerVisitOnce(v, orig)
      [] op = "visitAgain" -> ChangeTrackerVisitAgain(v, orig)
      [] op = "revisit_visited" -> ChangeTrackerRevisitVisited(v)
      [] OTHER -> v

\* a hook edits the node it was given (the clone): the tag changes
EditNode(h, c) == [h EXCEPT ![c].tag = 1 - @]

EditsOf(budgetLeft) == IF budgetLeft THEN BOOLEAN ELSE {FALSE}

\* BUG(): the pass is aborted
Abort(msg) ==
    /\ phase' = "bug"
    /\ bugMsg' = msg

(* ----------------------------- Modifier ------------------------------- *)
\* Modifier::init_apply: a fresh ChangeTracker, an empty context
ModifierInitApply ==
    /\ phase = "idle" /\ disc = "Modifier"
    /\ phase' = "run"
    /\ live' = TRUE
    /\ visited' = <<>>
    /\ stack' = <<>>
    /\ UNCHANGED <<input, disc, visitDagOnce, forceClone, dontForward, heap, originOf,
                   prune_flag, bugMsg, rootResult, log, lastTry, lastFin, rewrites,
                   flagOps>>
    /\ UNCHANGED sideVars

\* Modifier::apply_visitor up to the preorder call; the Busy and Done cases (and a
\* null node) run to the return
ModifierEnter ==
    /\ disc = "Modifier" /\ CanCall
    /\ LET call == Pending
           n == call.n
           d == Len(stack) + 1
       IN IF n = Null
          THEN /\ Leave(stack, heap, visited, call, Null,
                        <<Ev("null", Null, d, call.slot, Null, <<>>)>>)
               /\ UNCHANGED <<lastTry, originOf>>
          ELSE LET ts == ChangeTrackerTryStart(visited, n, visitDagOnce)
                   enter == Ev("enter", n, d, call.slot, Null, <<>>)
               IN /\ lastTry' = [n |-> n, v |-> visitDagOnce, before |-> visited,
                                 status |-> ts.status, after |-> ts.visited]
                  /\ CASE ts.status = "Busy" ->
                            /\ Leave(stack, heap, ts.visited, call, n,
                                  <<enter, Ev("loop_revisit", n, d, 0, Null, <<>>),
                                    Ev("ret", n, d, call.slot, n, <<>>)>>)
                            /\ UNCHANGED originOf
                       [] ts.status = "Done" ->
                            LET r == ChangeTrackerResult(ts.visited, n)
                            IN /\ Leave(stack, heap, ts.visited, call, r,
                                     <<enter, Ev("revisit", n, d, 0, r, <<>>),
                                       Ev("ret", n, d, call.slot, r, <<>>)>>)
                               /\ UNCHANGED originOf
                       [] OTHER ->
                            LET copy == Len(heap) + 1
                                h1 == Clone(heap, n)
                                pushed == PushContext(
                                   IF stack = <<>> THEN stack
                                   ELSE [stack EXCEPT ![Len(stack)].child_name = call.name],
                                   n)
                            IN /\ Len(heap) < MaxHeap
                               /\ stack' = [pushed EXCEPT ![Len(pushed)].node = copy]
                               /\ heap' = IF dontForward THEN h1
                                          ELSE ForwardChildren(h1, ts.visited, copy)
                               /\ originOf' = Append(originOf, originOf[n])
                               /\ visited' = ts.visited
                               /\ log' = Append(log, enter)
                               /\ UNCHANGED <<live, phase, rootResult>>
    /\ UNCHANGED <<input, disc, visitDagOnce, forceClone, dontForward, prune_flag,
                   bugMsg, lastFin, rewrites, flagOps>>
    /\ UNCHANGED sideVars

\* (mutant) the children are visited whatever preorder returned
ModifierDescends_Always(ret) == TRUE

\* whether the children and postorder run, given what preorder returned
ModifierDescends(ret) == ret

\* the node Modifier::apply_visitor returns after finish(n, copy)
ModifierReturn(n, copy, changed) == IF changed THEN copy ELSE n

\* the end of a New/Revisit visit of a Modifier: finish(n, copy) and the return
ModifierFinish(h, v, evs) ==
    LET n == Top.original
        copy == Top.node
        d == Len(stack)
        below == SubSeq(stack, 1, Len(stack) - 1)
        call == [n |-> n, name |-> SlotOf(stack), slot |-> SlotOf(stack)]
        fin == ChangeTrackerFinish(v, n, copy, forceClone, h)
        r == ModifierReturn(n, copy, fin.ret)
    IN /\ lastFin' = [n |-> n, final |-> copy, force |-> forceClone, before |-> v,
                      ret |-> fin.ret, after |-> fin.visited, heap |-> h,
                      first |-> NoCall]
       /\ IF fin.bug
          THEN /\ Abort("visitor state tracker corrupted")
               /\ log' = log \o evs
               /\ heap' = h
               /\ UNCHANGED <<stack, visited, live, rootResult>>
          ELSE /\ Leave(below, h, fin.visited, call, r,
                        evs \o <<Ev("ret", n, d, call.slot, r, <<>>)>>)
               /\ UNCHANGED bugMsg

\* Modifier::apply_visitor, New/Revisit: preorder on the clone; if it returns false
\* the visit is finished at once
ModifierPreorder ==
    /\ disc = "Modifier" /\ phase = "run" /\ stack # <<>> /\ Top.pc = "pre"
    /\ \E ret \in BOOLEAN, op \in FlagOpsOf(flagOps < MaxFlagOps),
          edit \in EditsOf(rewrites < MaxRewrites) :
         LET n == Top.original
             copy == Top.node
             d == Len(stack)
             v1 == ChangeFlagOp(visited, op, n)
             h1 == IF edit THEN EditNode(heap, copy) ELSE heap
             pre == Ev("preorder", n, d, <<op, IF edit THEN "edit" ELSE "keep", ~ret, FALSE>>,
                       copy, heap[copy].kids)
         IN /\ flagOps' = IF op = "none" THEN flagOps ELSE flagOps + 1
            /\ rewrites' = IF edit THEN rewrites + 1 ELSE rewrites
            /\ IF ModifierDescends(ret)
               THEN /\ stack' = [stack EXCEPT ![Len(stack)].pc = "kids",
                                             ![Len(stack)].pre = copy]
                    /\ visited' = v1
                    /\ heap' = h1
                    /\ log' = Append(log, pre)
                    /\ UNCHANGED <<live, phase, rootResult, bugMsg, lastFin>>
               ELSE ModifierFinish(h1, v1, <<pre>>)
    /\ UNCHANGED <<input, disc, visitDagOnce, forceClone, dontForward, originOf, prune_flag,
                   lastTry>>
    /\ UNCHANGED sideVars

\* Modifier::apply_visitor, New/Revisit: after the last child, postorder on the
\* clone, finish and the return
ModifierPostorder ==
    /\ disc = "Modifier" /\ phase = "run" /\ stack # <<>> /\ Top.pc = "kids"
    /\ Top.child_index >= Len(heap[Top.node].kids)
    /\ \E edit \in EditsOf(rewrites < MaxRewrites) :
         LET n == Top.original
             copy == Top.node
             h1 == IF edit THEN EditNode(heap, copy) ELSE heap
         IN /\ rewrites' = IF edit THEN rewrites + 1 ELSE rewrites
            /\ ModifierFinish(h1, visited,
                   <<Ev("postorder", n, Len(stack),
                        <<"none", IF edit THEN "edit" ELSE "keep", FALSE, FALSE>>,
                        copy, heap[copy].kids)>>)
    /\ UNCHANGED <<input, disc, visitDagOnce, forceClone, dontForward, originOf, prune_flag,
                   lastTry, flagOps>>
    /\ UNCHANGED sideVars

(* ----------------------------- Transform ------------------------------ *)
\* Transform::init_apply: a fresh ChangeTracker, an empty context
TransformInitApply ==
    /\ phase = "idle" /\ disc = "Transform"
    /\ phase' = "run"
    /\ live' = TRUE
    /\ visited' = <<>>
    /\ stack' = <<>>
    /\ UNCHANGED <<input, disc, visitDagOnce, forceClone, dontForward, heap, originOf,
                   prune_flag, bugMsg, rootResult, log, lastTry, lastFin, rewrites,
                   flagOps>>
    /\ UNCHANGED sideVars

\* Transform::apply_visitor up to the preorder call; the Busy and Done cases (and a
\* null node) run to the return
TransformEnter ==
    /\ disc = "Transform" /\ CanCall
    /\ LET call == Pending
           n == call.n
           d == Len(stack) + 1
       IN IF n = Null
          THEN /\ Leave(stack, heap, visited, call, Null,
                        <<Ev("null", Null, d, call.slot, Null, <<>>)>>)
               /\ UNCHANGED <<lastTry, originOf, prune_flag>>
          ELSE LET ts == ChangeTrackerTryStart(visited, n, visitDagOnce)
                   enter == Ev("enter", n, d, call.slot, Null, <<>>)
               IN /\ lastTry' = [n |-> n, v |-> visitDagOnce, before |-> visited,
                                 status |-> ts.status, after |-> ts.visited]
                  /\ CASE ts.status = "Busy" ->
                            /\ Leave(stack, heap, ts.visited, call, n,
                                  <<enter, Ev("loop_revisit", n, d, 0, Null, <<>>),
                                    Ev("ret", n, d, call.slot, n, <<>>)>>)
                            /\ UNCHANGED <<originOf, prune_flag>>
                       [] ts.status = "Done" ->
                            LET r == ChangeTrackerResult(ts.visited, n)
                            IN /\ Leave(stack, heap, ts.visited, call, r,
                                     <<enter, Ev("revisit", n, d, 0, r, <<>>),
                                       Ev("ret", n, d, call.slot, r, <<>>)>>)
                               /\ UNCHANGED <<originOf, prune_flag>>
                       [] OTHER ->
                            LET copy == Len(heap) + 1
                                h1 == Clone(heap, n)
                                pushed == PushContext(
                                   IF stack = <<>> THEN stack
                                   ELSE [stack EXCEPT ![Len(stack)].child_name = call.name],
                                   n)
                            IN /\ Len(heap) < MaxHeap
                               /\ stack' = [pushed EXCEPT
                                               ![Len(pushed)].node = copy,
                                               ![Len(pushed)].save_prune = prune_flag]
                               /\ prune_flag' = FALSE
                               /\ heap' = IF dontForward THEN h1
                                          ELSE ForwardChildren(h1, ts.visited, copy)
                               /\ originOf' = Append(originOf, originOf[n])
                               /\ visited' = ts.visited
                               /\ log' = Append(log, enter)
                               /\ UNCHANGED <<live, phase, rootResult>>
    /\ UNCHANGED <<input, disc, visitDagOnce, forceClone, dontForward,
                   bugMsg, lastFin, rewrites, flagOps>>
    /\ UNCHANGED sideVars

\* (mutant) the clone is kept even when it ended equal to the substitute
TransformCanonical_None(h, final, copy, pr) == final

\* the final result after postorder: a clone that ended equal to the substitute it
\* was made from is replaced by that substitute
TransformCanonical(h, final, copy, pr) ==
    IF final = copy /\ final # pr /\ NodeEq(h, final, pr) THEN pr ELSE final

\* (mutant) the final result is returned whatever finish answered
TransformReturn_Mut(n, final, changed) == final

\* the node Transform::apply_visitor returns after finish(n, final_result)
TransformReturn(n, final, changed) == IF changed THEN final ELSE n

\* the end of a New/Revisit visit of a Transform, from the restore of prune_flag
\* on: final is final_result, copy the clone visited, pr the preorder_result
TransformFinish(h, v, final0, copy, pr, extra, evs) ==
    LET n == Top.original
        d == Len(stack)
        below == SubSeq(stack, 1, Len(stack) - 1)
        call == [n |-> n, name |-> SlotOf(stack), slot |-> SlotOf(stack)]
        final == TransformCanonical(h, final0, copy, pr)
        fin == ChangeTrackerFinish(v, n, final, forceClone, h)
        r == TransformReturn(n, final, fin.ret)
        fin2 == IF extra /\ ~fin.bug
                THEN ChangeTrackerFinish(fin.visited, pr, final, forceClone, h)
                ELSE fin
    IN /\ prune_flag' = Top.save_prune
       /\ lastFin' = IF extra /\ ~fin.bug
                     THEN [n |-> pr, final |-> final, force |-> forceClone,
                           before |-> fin.visited, ret |-> fin2.ret,
                           after |-> fin2.visited, heap |-> h,
                           first |-> [n |-> n, final |-> final, before |-> v,
                                      ret |-> fin.ret, after |-> fin.visited]]
                     ELSE [n |-> n, final |-> final, force |-> forceClone,
                           before |-> v, ret |-> fin.ret, after |-> fin.visited,
                           heap |-> h, first |-> NoCall]
       /\ IF fin2.bug
          THEN /\ Abort("visitor state tracker corrupted")
               /\ log' = log \o evs
               /\ heap' = h
               /\ UNCHANGED <<stack, visited, live, rootResult>>
          ELSE /\ Leave(below, h, fin2.visited, call, r,
                        evs \o <<Ev("ret", n, d, call.slot, r, <<>>)>>)
               /\ UNCHANGED bugMsg

\* what a preorder/postorder hook of a Transform may return: the node it was given
\* ("keep", "edit": after changing it), null, a node it makes ("fresh"), or, from
\* preorder, another node of the input (<<"subst", m>>)
TransformKinds(budgetLeft, n, inPreorder) ==
    IF ~budgetLeft THEN {<<"keep", Null>>}
    ELSE {<<"keep", Null>>, <<"edit", Null>>, <<"null", Null>>}
         \cup (IF inPreorder
               THEN {<<"fresh", Null>>} \cup {<<"subst", m>> : m \in Nodes \ {n}}
               ELSE {})

\* Transform::apply_visitor, New/Revisit: preorder on the clone and the handling of
\* its result; a pruned visit is finished at once
TransformPreorderWith(budget) ==
    /\ disc = "Transform" /\ phase = "run" /\ stack # <<>> /\ Top.pc = "pre"
    /\ \E kind \in TransformKinds(rewrites < budget, Top.original, TRUE),
          op \in FlagOpsOf(flagOps < MaxFlagOps), pruneCall \in BOOLEAN :
         LET n == Top.original
             copy == Top.node
             d == Len(stack)
             v1 == ChangeFlagOp(visited, op, n)
             \* the hook's own effect on the heap and the node it returns
             h1 == CASE kind[1] = "edit" -> EditNode(heap, copy)
                     [] kind[1] = "fresh" ->
                          Append(heap, [heap[copy] EXCEPT !.tag = 1 - @])
                     [] OTHER -> heap
             pr == CASE kind[1] = "null" -> Null
                     [] kind[1] = "fresh" -> Len(heap) + 1
                     [] kind[1] = "subst" -> kind[2]
                     [] OTHER -> copy
             o1 == IF kind[1] = "fresh" THEN Append(originOf, originOf[n])
                   ELSE originOf
             wasDone == pr # Null /\ pr # copy /\ ChangeTrackerDone(v1, pr)
             extra == pr # Null /\ pr # copy /\ ~wasDone
             ts == IF extra
                   THEN ChangeTrackerTryStart(v1, pr, ChangeTrackerShouldVisitOnce(v1, n))
                   ELSE [status |-> "New", visited |-> v1]
             h2 == IF extra THEN Clone(h1, pr) ELSE h1
             copy2 == IF extra THEN Len(h1) + 1 ELSE copy
             final == IF wasDone THEN ChangeTrackerResult(v1, pr) ELSE pr
             pruned == pruneCall \/ pr = Null \/ wasDone
             pre == Ev("preorder", n, d, <<op, kind[1], pruneCall, wasDone>>, pr,
                       heap[copy].kids)
         IN /\ Len(heap) + 2 <= MaxHeap
            /\ flagOps' = IF op = "none" THEN flagOps ELSE flagOps + 1
            /\ rewrites' = IF kind[1] = "keep" THEN rewrites ELSE rewrites + 1
            /\ lastTry' = IF extra
                          THEN [n |-> pr, v |-> ChangeTrackerShouldVisitOnce(v1, n),
                                before |-> v1, status |-> ts.status,
                                after |-> ts.visited]
                          ELSE lastTry
            /\ originOf' = IF extra THEN Append(o1, o1[pr]) ELSE o1
            /\ IF extra /\ ts.status = "Busy"
               THEN /\ Abort("IR loop detected")
                    /\ log' = Append(log, pre)
                    /\ heap' = h1
                    /\ visited' = ts.visited
                    /\ UNCHANGED <<stack, live, rootResult, prune_flag, lastFin>>
               ELSE IF ~pruned
               THEN /\ stack' = [stack EXCEPT ![Len(stack)].pc = "kids",
                                             ![Len(stack)].pre = pr,
                                             ![Len(stack)].extra = extra,
                                             ![Len(stack)].node = copy2]
                    /\ visited' = ts.visited
                    /\ heap' = h2
                    /\ log' = Append(log, pre)
                    /\ UNCHANGED <<live, phase, rootResult, bugMsg, lastFin, prune_flag>>
               ELSE TransformFinish(h2, ts.visited, final, copy2, pr, extra, <<pre>>)
    /\ UNCHANGED <<input, disc, visitDagOnce, forceClone, dontForward>>
    /\ UNCHANGED sideVars

TransformPreorder == TransformPreorderWith(MaxRewrites)

\* Transform::apply_visitor, New/Revisit: after the last child, postorder on the
\* clone, finish and the return
TransformPostorderWith(budget) ==
    /\ disc = "Transform" /\ phase = "run" /\ stack # <<>> /\ Top.pc = "kids"
    /\ Top.child_index >= Len(heap[Top.node].kids)
    /\ \E kind \in TransformKinds(rewrites < budget, Top.original, FALSE) :
         LET n == Top.original
             copy == Top.node
             h1 == IF kind[1] = "edit" THEN EditNode(heap, copy) ELSE heap
             final == IF kind[1] = "null" THEN Null ELSE copy
         IN /\ rewrites' = IF kind[1] = "keep" THEN rewrites ELSE rewrites + 1
            /\ TransformFinish(h1, visited, final, copy, Top.pre, Top.extra,
                   <<Ev("postorder", n, Len(stack), <<"none", kind[1], FALSE, FALSE>>,
                        final, heap[copy].kids)>>)
    /\ UNCHANGED <<input, disc, visitDagOnce, forceClone, dontForward, originOf,
                   lastTry, flagOps>>
    /\ UNCHANGED sideVars

TransformPostorder == TransformPostorderWith(MaxRewrites)

(* ------------------------- the specification -------------------------- *)
Init ==
    /\ disc \in {"Inspector", "Modifier", "Transform"}
    /\ visitDagOnce \in BOOLEAN
    /\ forceClone \in (IF disc = "Inspector" THEN {FALSE} ELSE BOOLEAN)
    /\ dontForward \in (IF disc = "Inspector" THEN {FALSE} ELSE BOOLEAN)
    /\ \E g \in Graphs : heap = [n \in Nodes |-> [tag |-> 0, kids |-> g[n]]]
    /\ input = heap
    /\ originOf = [n \in Nodes |-> n]
    /\ live = FALSE
    /\ visited = <<>>
    /\ stack = <<>>
    /\ prune_flag = FALSE
    /\ phase = "idle"
    /\ bugMsg = ""
    /\ rootResult = Null
    /\ log = <<>>
    /\ lastTry = NoCall
    /\ lastFin = NoCall
    /\ rewrites = 0
    /\ flagOps = 0
    /\ chainLen = 0
    /\ ctxtDepth = 0
    /\ BackwardsCompatibleBroken = FALSE
    /\ flow_join_points = <<>>
    /\ flowOf = <<>>
    /\ splitNodes = {}
    /\ filtered = {}
    /\ applies = 0
    /\ NoResolver /\ NoDriver

Next ==
    \/ InspectorInitApply
    \/ InspectorEnter
    \/ InspectorPreorder
    \/ InspectorPostorder
    \/ ModifierInitApply
    \/ ModifierEnter
    \/ ModifierPreorder
    \/ ModifierPostorder
    \/ TransformInitApply
    \/ TransformEnter
    \/ TransformPreorder
    \/ TransformPostorder

Spec == Init /\ [][Next]_vars

(* ------------------ a deep descent (PushContext's limit) -------------- *)
\* A pass of any class over a chain of chainLen distinct nodes, each the only child
\* of the one before: every apply_visitor pushes one Context and pops it when it
\* returns.  Only the depth of the top Context matters to PushContext, so the
\* chain's frames are represented by ctxtDepth.
ChainLens == (MaxContextDepth - ChainSlack)..(MaxContextDepth + ChainSlack)

ChainInit ==
    /\ disc \in {"Inspector", "Modifier", "Transform"}
    /\ visitDagOnce = TRUE /\ forceClone = FALSE /\ dontForward = FALSE
    /\ heap = <<>> /\ input = <<>> /\ originOf = <<>>
    /\ live = TRUE /\ visited = <<>> /\ stack = <<>>
    /\ prune_flag = FALSE
    /\ phase = "descend"
    /\ bugMsg = ""
    /\ rootResult = Null
    /\ log = <<>>
    /\ lastTry = NoCall /\ lastFin = NoCall
    /\ rewrites = 0 /\ flagOps = 0
    /\ chainLen \in ChainLens
    /\ ctxtDepth = 0
    /\ BackwardsCompatibleBroken = FALSE
    /\ flow_join_points = <<>>
    /\ flowOf = <<>>
    /\ splitNodes = {}
    /\ filtered = {}
    /\ applies = 0
    /\ NoResolver /\ NoDriver

\* apply_visitor on the next node of the chain: PushContext and its assertion
ChainPush ==
    /\ phase = "descend" /\ ctxtDepth < chainLen
    /\ IF DepthAsserted(PushDepth(ctxtDepth))
       THEN /\ ctxtDepth' = PushDepth(ctxtDepth)
            /\ UNCHANGED <<phase, bugMsg>>
       ELSE /\ phase' = "bug"
            /\ bugMsg' = "assertion failed: current.depth < 10000"
            /\ UNCHANGED ctxtDepth
    /\ UNCHANGED <<disc, visitDagOnce, forceClone, dontForward, heap, input, originOf,
                   live, visited, stack, prune_flag, rootResult, log, lastTry, lastFin,
                   rewrites, flagOps, chainLen, flowVars, applies, resVars, driver>>

\* the return of the innermost apply_visitor: ~PushContext
ChainPop ==
    /\ \/ phase = "ascend"
       \/ phase = "descend" /\ ctxtDepth = chainLen
    /\ ctxtDepth > 0
    /\ ctxtDepth' = ctxtDepth - 1
    /\ phase' = IF ctxtDepth = 1 THEN "done" ELSE "ascend"
    /\ UNCHANGED <<disc, visitDagOnce, forceClone, dontForward, heap, input, originOf,
                   live, visited, stack, prune_flag, bugMsg, rootResult, log, lastTry,
                   lastFin, rewrites, flagOps, chainLen, flowVars, applies, resVars, driver>>

ChainNext ==
    \/ ChainPush
    \/ ChainPop

DepthSpec == ChainInit /\ [][ChainNext]_vars

(* ------------- ControlFlowVisitor: joining the control flow ----------- *)
\* An Inspector that is a ControlFlowVisitor with joinFlows set, applied to an
\* acyclic graph of NumFlow nodes.  Its data-flow state is the set of nodes whose
\* preorder has contributed to it; flow_merge is the union and flow_copy the
\* assignment.
NumFlow == 4

MaxFlowEdges == 5

FlowNodes == 1..NumFlow

FlowKidSeqs == UNION {[1..k -> FlowNodes] : k \in 0..MaxKids}

FlowEdgeCount(g) ==
    LET cnt[n \in 0..NumFlow] == IF n = 0 THEN 0 ELSE cnt[n - 1] + Len(g[n])
    IN cnt[NumFlow]

FlowGraphs == {g \in [FlowNodes -> FlowKidSeqs] :
                  /\ FlowEdgeCount(g) <= MaxFlowEdges
                  /\ Reach(g, Root) = FlowNodes
                  /\ \A n \in FlowNodes : \A k \in NonNull(g[n]) : n \notin Reach(g, k)
                  /\ DfsOrder(g, Root, <<>>) = [i \in FlowNodes |-> i]}

\* x.flow_merge(y), as the new value of x
FlowMerge(x, y) == x \cup y

\* x.flow_copy(y), as the new value of x
FlowCopy(x, y) == y

\* the transfer function of the visitor's preorder on node n
FlowTransfer(st, n) == st \cup {n}

\* flow_join_info_t without / with an accumulator (vclone)
NoClone == [set |-> FALSE, st |-> {}]

CloneOf(st) == [set |-> TRUE, st |-> st]

\* the calls of apply_visitor on node n in a traversal that descends into every
\* node once: one per slot holding n, and the top-level one for the root
Arrivals(g, n) ==
    Cardinality({s \in (DOMAIN g) \X (1..MaxKids) :
                    s[2] \in DOMAIN g[s[1]] /\ g[s[1]][s[2]] = n})
    + (IF n = Root THEN 1 ELSE 0)

\* SetupJoinPoints: the nodes that are reached more than once, each with the
\* number of arrivals that have to wait for a later one
SetupJoinPoints(g) ==
    [n \in {m \in DOMAIN g : Arrivals(g, m) >= 2} |->
        [count |-> Arrivals(g, n) - 1, vclone |-> NoClone, done |-> FALSE]]

\* (mutant) the entries of an earlier apply are kept
InitJoinFlows_NoClear(old, g, filt) ==
    LET t == SetupJoinPoints(g)
    IN [n \in (DOMAIN t \cup DOMAIN old) \ filt |->
           IF n \in DOMAIN old THEN old[n] ELSE t[n]]

\* ControlFlowVisitor::init_join_flows: the table is cleared, the pre-pass fills
\* it, the entries filter_join_point rejects are erased
InitJoinFlows(old, g, filt) ==
    LET t == SetupJoinPoints(g)
    IN [n \in DOMAIN t \ filt |-> t[n]]

\* (mutant) the node is visited as soon as no further arrival is awaited
JoinFlows_Early(t, n, st, legacy) ==
    IF n \notin DOMAIN t THEN [t |-> t, st |-> st, out |-> "visit"]
    ELSE LET c == t[n].count - 1
         IN IF c <= 0
            THEN [t |-> [t EXCEPT ![n].count = c],
                  st |-> FlowMerge(st, t[n].vclone.st), out |-> "visit"]
            ELSE [t |-> [t EXCEPT ![n].count = c,
                                  ![n].vclone = IF t[n].vclone.set
                                                THEN CloneOf(FlowMerge(t[n].vclone.st, st))
                                                ELSE CloneOf(st)],
                  st |-> st, out |-> IF legacy THEN "skip" ELSE "wait"]

\* (mutant) an arrival that has to wait replaces the accumulator
JoinFlows_NoMerge(t, n, st, legacy) ==
    IF n \notin DOMAIN t THEN [t |-> t, st |-> st, out |-> "visit"]
    ELSE LET c == t[n].count - 1
         IN IF c < 0
            THEN [t |-> [t EXCEPT ![n].count = c],
                  st |-> FlowMerge(st, t[n].vclone.st), out |-> "visit"]
            ELSE [t |-> [t EXCEPT ![n].count = c, ![n].vclone = CloneOf(st)],
                  st |-> st, out |-> IF legacy THEN "skip" ELSE "wait"]

\* ControlFlowVisitor::join_flows up to `if (BackwardsCompatibleBroken) return true`:
\* the table and the visitor's state afterwards, and whether the node is visited
\* now, skipped, or the pending branches are visited first
JoinFlows(t, n, st, legacy) ==
    IF n \notin DOMAIN t THEN [t |-> t, st |-> st, out |-> "visit"]
    ELSE LET c == t[n].count - 1
         IN IF c < 0
            THEN [t |-> [t EXCEPT ![n].count = c],
                  st |-> FlowMerge(st, t[n].vclone.st), out |-> "visit"]
            ELSE [t |-> [t EXCEPT ![n].count = c,
                                  ![n].vclone = IF t[n].vclone.set
                                                THEN CloneOf(FlowMerge(t[n].vclone.st, st))
                                                ELSE CloneOf(st)],
                  st |-> st, out |-> IF legacy THEN "skip" ELSE "wait"]

\* (mutant) the check of post_join_flows without its exemption of count < -1
PostJoinCheck_Strict(e) == ~e.done

\* ControlFlowVisitor::post_join_flows: BUG_CHECK(!status.done || status.count < -1)
PostJoinCheck(e) == ~e.done \/ e.count < -1

\* (mutant) post_join_flows copies the accumulator into the visitor
PostJoinFlows_Into(t, n, st) ==
    IF n \notin DOMAIN t THEN [t |-> t, st |-> st, bug |-> FALSE]
    ELSE IF ~PostJoinCheck(t[n]) THEN [t |-> t, st |-> st, bug |-> TRUE]
    ELSE [t |-> [t EXCEPT ![n].done = TRUE],
          st |-> FlowCopy(st, t[n].vclone.st), bug |-> FALSE]

\* ControlFlowVisitor::post_join_flows: the table and the visitor's state afterwards
PostJoinFlows(t, n, st) ==
    IF n \notin DOMAIN t THEN [t |-> t, st |-> st, bug |-> FALSE]
    ELSE IF ~PostJoinCheck(t[n]) THEN [t |-> t, st |-> st, bug |-> TRUE]
    ELSE [t |-> [t EXCEPT ![n].done = TRUE,
                          ![n].vclone = CloneOf(FlowCopy(t[n].vclone.st, st))],
          st |-> st, bug |-> FALSE]

\* the Context apply_visitor pushes for n on the context `c` (a position in stack,
\* 0: none) of visitor v, with the bookkeeping of the activation: the visitor that
\* runs it, its context, the slot it was called for and, for a node that splits
\* the flow, the visitor of each branch and the branches already started
FlowFrame(n, v, c, slot) ==
    LET s == PushContext(IF c = 0 THEN <<>> ELSE <<stack[c]>>, n)
    IN s[Len(s)] @@ [vis |-> v, ctx |-> c, kind |-> "node", slot |-> slot,
                     visit_next |-> 0, visitors |-> <<>>]

\* the activation of a join_flows that visits the pending branches before it returns
JoinFrame(n, v, c, slot) ==
    [FlowFrame(n, v, c, slot) EXCEPT !.kind = "join", !.pc = "join"]

IsSplit(f) == f.kind = "node" /\ f.pc = "kids" /\ f.node \in splitNodes

\* the split_link chain: the splits with a branch that has not been started
ReadySplits ==
    {i \in DOMAIN stack : IsSplit(stack[i])
                          /\ stack[i].visit_next < Len(heap[stack[i].node].kids)}

Highest(S) == CHOOSE i \in S : \A j \in S : j <= i

\* the frame whose visit_children makes the next call (0: the top-level apply)
FlowCaller ==
    IF stack = <<>> THEN 0
    ELSE IF Top.kind = "join" THEN Highest(ReadySplits)
    ELSE Len(stack)

FlowCanCall ==
    /\ phase = "run"
    /\ \/ stack = <<>> /\ rootResult = Null /\ log = <<>>
       \/ /\ stack # <<>> /\ Top.kind = "node" /\ Top.pc = "kids"
          /\ (IF Top.node \in splitNodes THEN Top.visit_next ELSE Top.child_index)
                 < Len(heap[Top.node].kids)
       \/ /\ stack # <<>> /\ Top.kind = "join"
          /\ flow_join_points[Top.node].count >= 0
          /\ ReadySplits # {}

FlowAbort(msg, evs) ==
    /\ Abort(msg)
    /\ log' = log \o evs
    /\ UNCHANGED <<stack, visited, live, rootResult, flowOf, flow_join_points>>

\* the end of apply_visitor: `if (ctxt) ctxt->child_index++; else visited.reset()`;
\* stk is the stack without the activation that returns
FlowLeave(stk, c, v, r) ==
    /\ stack' = IF c = 0 THEN stk ELSE [stk EXCEPT ![c].child_index = @ + 1]
    /\ visited' = IF c = 0 THEN <<>> ELSE v
    /\ live' = (c # 0)
    /\ phase' = IF c = 0 THEN "done" ELSE phase
    /\ rootResult' = IF c = 0 THEN r ELSE rootResult

\* post_join_flows(n, n) and the return of apply_visitor
FlowFinish(stk, n, v, c, d, slot, st, v1, evs) ==
    LET pj == PostJoinFlows(flow_join_points, n, st)
        post == IF n \in DOMAIN flow_join_points
                THEN <<Ev("post_join", n, d,
                          [vis |-> v, this0 |-> st, this1 |-> pj.st,
                           acc0 |-> flow_join_points[n].vclone,
                           acc1 |-> pj.t[n].vclone,
                           cnt |-> flow_join_points[n].count,
                           done0 |-> flow_join_points[n].done], Null, <<>>)>>
                ELSE <<>>
    IN IF pj.bug
       THEN FlowAbort("flow join point visited more than once!", evs)
       ELSE /\ FlowLeave(stk, c, v1, n)
            /\ flow_join_points' = pj.t
            /\ flowOf' = [flowOf EXCEPT ![v] = pj.st]
            /\ log' = log \o evs \o post \o <<Ev("ret", n, d, slot, n, <<>>)>>

\* ControlFlowVisitor::init_apply: a fresh Tracker, an empty context, the join table
\* of this apply
FlowInitApply ==
    /\ phase = "idle" /\ disc = "ControlFlow"
    /\ phase' = "run"
    /\ live' = TRUE
    /\ visited' = <<>>
    /\ stack' = <<>>
    /\ flow_join_points' = InitJoinFlows(flow_join_points, KidsOf(heap), filtered)
    /\ UNCHANGED <<input, disc, visitDagOnce, forceClone, dontForward, heap, originOf,
                   prune_flag, bugMsg, rootResult, log, lastTry, lastFin, rewrites,
                   flagOps, chainLen, ctxtDepth, BackwardsCompatibleBroken, flowOf,
                   splitNodes, filtered, applies, resVars, driver>>

\* Inspector::apply_visitor of a ControlFlowVisitor up to the dispatch on the
\* node's status: join_flows, try_start; a skipped node and the Busy and Done
\* cases run to the return
FlowEnter ==
    /\ disc = "ControlFlow" /\ FlowCanCall
    /\ LET c == FlowCaller
           split == c # 0 /\ stack[c].node \in splitNodes
           slot == IF c = 0 THEN 0
                   ELSE IF split THEN stack[c].visit_next + 1
                   ELSE stack[c].child_index + 1
           n == IF c = 0 THEN Root ELSE heap[stack[c].node].kids[slot]
           v == IF c = 0 THEN 1
                ELSE IF split THEN stack[c].visitors[slot] ELSE stack[c].vis
           d == IF c = 0 THEN 1 ELSE stack[c].depth + 1
           stk1 == IF c = 0 THEN stack
                   ELSE [stack EXCEPT ![c].child_name = slot,
                                      ![c].visit_next = IF split THEN slot ELSE @]
           jf == JoinFlows(flow_join_points, n, flowOf[v], BackwardsCompatibleBroken)
           enter == Ev("enter", n, d, slot, Null, <<>>)
           arrive == IF n \in DOMAIN flow_join_points
                     THEN <<Ev("arrive", n, d,
                               [vis |-> v, cnt |-> jf.t[n].count,
                                acc0 |-> flow_join_points[n].vclone,
                                acc1 |-> jf.t[n].vclone,
                                st0 |-> flowOf[v], st1 |-> jf.st, out |-> jf.out],
                               Null, <<>>)>>
                     ELSE <<>>
           ts == TrackerTryStart(visited, n, visitDagOnce)
       IN CASE jf.out = "skip" ->
                 /\ FlowLeave(stk1, c, visited, n)
                 /\ flow_join_points' = jf.t
                 /\ log' = log \o <<enter>> \o arrive \o <<Ev("ret", n, d, slot, n, <<>>)>>
                 /\ UNCHANGED <<flowOf, lastTry, bugMsg>>
            [] jf.out = "wait" ->
                 /\ stack' = Append(stk1, JoinFrame(n, v, c, slot))
                 /\ flow_join_points' = jf.t
                 /\ log' = log \o <<enter>> \o arrive
                 /\ UNCHANGED <<flowOf, lastTry, visited, live, phase, rootResult, bugMsg>>
            [] OTHER ->
                 /\ lastTry' = [n |-> n, v |-> visitDagOnce, before |-> visited,
                                status |-> ts.status, after |-> ts.visited]
                 /\ IF ts.status \in {"Busy", "Done"}
                    THEN LET pj == PostJoinFlows(jf.t, n, jf.st)
                             kind == IF ts.status = "Busy" THEN "loop_revisit" ELSE "revisit"
                             evs == <<enter>> \o arrive \o <<Ev(kind, n, d, 0, Null, <<>>)>>
                         IN IF pj.bug
                            THEN FlowAbort("flow join point visited more than once!", evs)
                            ELSE /\ FlowLeave(stk1, c, ts.visited, n)
                                 /\ flow_join_points' = pj.t
                                 /\ flowOf' = [flowOf EXCEPT ![v] = pj.st]
                                 /\ log' = log \o evs \o <<Ev("ret", n, d, slot, n, <<>>)>>
                                 /\ UNCHANGED bugMsg
                    ELSE /\ stack' = Append(stk1, FlowFrame(n, v, c, slot))
                         /\ visited' = ts.visited
                         /\ flow_join_points' = jf.t
                         /\ flowOf' = [flowOf EXCEPT ![v] = jf.st]
                         /\ log' = log \o <<enter>> \o arrive
                                       \o <<Ev("visit", n, d, [vis |-> v, st |-> jf.st],
                                               Null, <<>>)>>
                         /\ UNCHANGED <<live, phase, rootResult, bugMsg>>
    /\ UNCHANGED <<input, disc, visitDagOnce, forceClone, dontForward, heap, originOf,
                   prune_flag, lastFin, rewrites, flagOps, chainLen, ctxtDepth,
                   BackwardsCompatibleBroken, splitNodes, filtered, applies, resVars, driver>>

\* the visitors of the branches of a node that splits the flow: the visitor itself
\* for the first branch, a clone of it for each other branch
BranchVisitors(v, k, used) == <<v>> \o [i \in 1..(k - 1) |-> used + i]

\* New/Revisit: preorder; if it returns false the visit is finished at once;
\* otherwise visit_children starts, a node that splits the flow cloning the
\* visitor for its branches
FlowPreorder ==
    /\ disc = "ControlFlow" /\ phase = "run" /\ stack # <<>>
    /\ Top.kind = "node" /\ Top.pc = "pre"
    /\ \E ret \in BOOLEAN :
         LET n == Top.original
             v == Top.vis
             k == Len(heap[n].kids)
             st == FlowTransfer(flowOf[v], n)
             pre == Ev("preorder", n, Top.depth, <<"none", "keep", ~ret, FALSE>>, n,
                       heap[n].kids)
             below == SubSeq(stack, 1, Len(stack) - 1)
         IN IF InspectorDescends(ret)
            THEN /\ stack' = [stack EXCEPT
                                ![Len(stack)].pc = "kids",
                                ![Len(stack)].pre = ret,
                                ![Len(stack)].visitors =
                                    IF n \in splitNodes
                                    THEN BranchVisitors(v, k, Len(flowOf)) ELSE <<>>]
                 /\ flowOf' = [flowOf EXCEPT ![v] = st]
                                 \o (IF n \in splitNodes THEN [i \in 1..(k - 1) |-> st]
                                     ELSE <<>>)
                 /\ log' = Append(log, pre)
                 /\ UNCHANGED <<visited, live, phase, rootResult, flow_join_points, bugMsg>>
            ELSE IF PostJoinFlows(flow_join_points, n, st).bug
                 THEN FlowFinish(below, n, v, Top.ctx, Top.depth, Top.slot, st,
                                 TrackerFinish(visited, n), <<pre>>)
                 ELSE /\ FlowFinish(below, n, v, Top.ctx, Top.depth, Top.slot, st,
                                    TrackerFinish(visited, n), <<pre>>)
                      /\ UNCHANGED bugMsg
    /\ UNCHANGED <<input, disc, visitDagOnce, forceClone, dontForward, heap, originOf,
                   prune_flag, lastTry, lastFin, rewrites, flagOps, chainLen, ctxtDepth,
                   BackwardsCompatibleBroken, splitNodes, filtered, applies, resVars, driver>>

\* the merge of the branches of a split when the last one is back
MergeBranches(fl, vs) ==
    LET m[i \in 1..Len(vs)] == IF i = 1 THEN fl[vs[1]] ELSE FlowMerge(m[i - 1], fl[vs[i]])
    IN m[Len(vs)]

\* New/Revisit: after the last child, postorder, finish, post_join_flows and the return
FlowPostorder ==
    /\ disc = "ControlFlow" /\ phase = "run" /\ stack # <<>>
    /\ Top.kind = "node" /\ Top.pc = "kids"
    /\ Top.child_index >= Len(heap[Top.node].kids)
    /\ LET n == Top.original
           v == Top.vis
           st == IF n \in splitNodes THEN MergeBranches(flowOf, Top.visitors)
                 ELSE flowOf[v]
           post == Ev("postorder", n, Top.depth, <<"none", "keep", FALSE, FALSE>>, n,
                      heap[n].kids)
           below == SubSeq(stack, 1, Len(stack) - 1)
       IN IF PostJoinFlows(flow_join_points, n, st).bug
          THEN FlowFinish(below, n, v, Top.ctx, Top.depth, Top.slot, st,
                          TrackerFinish(visited, n), <<post>>)
          ELSE /\ FlowFinish(below, n, v, Top.ctx, Top.depth, Top.slot, st,
                             TrackerFinish(visited, n), <<post>>)
               /\ UNCHANGED bugMsg
    /\ UNCHANGED <<input, disc, visitDagOnce, forceClone, dontForward, heap, originOf,
                   prune_flag, lastTry, lastFin, rewrites, flagOps, chainLen, ctxtDepth,
                   BackwardsCompatibleBroken, splitNodes, filtered, applies, resVars, driver>>

\* join_flows after its loop over the split_link chain: the BUG_CHECK, the copy of
\* the accumulator into the visitor, `return true`, and the return of the
\* apply_visitor that skipped the node
FlowJoinExit ==
    /\ disc = "ControlFlow" /\ phase = "run" /\ stack # <<>>
    /\ Top.kind = "join"
    /\ ~(flow_join_points[Top.node].count >= 0 /\ ReadySplits # {})
    /\ LET n == Top.node
           v == Top.vis
           e == flow_join_points[n]
           below == SubSeq(stack, 1, Len(stack) - 1)
           st == FlowCopy(flowOf[v], e.vclone.st)
       IN IF ~(e.count < 0 /\ e.done)
          THEN FlowAbort("SplitFlow::do_visit failed to finish node", <<>>)
          ELSE /\ FlowLeave(below, Top.ctx, visited, n)
               /\ flowOf' = [flowOf EXCEPT ![v] = st]
               /\ log' = log \o <<Ev("join_exit", n, Top.depth,
                                     [vis |-> v, st0 |-> flowOf[v], st1 |-> st,
                                      acc |-> e.vclone], Null, <<>>),
                                  Ev("ret", n, Top.depth, Top.slot, n, <<>>)>>
               /\ UNCHANGED <<flow_join_points, bugMsg>>
    /\ UNCHANGED <<input, disc, visitDagOnce, forceClone, dontForward, heap, originOf,
                   prune_flag, lastTry, lastFin, rewrites, flagOps, chainLen, ctxtDepth,
                   BackwardsCompatibleBroken, splitNodes, filtered, applies, resVars, driver>>

JoinNodes(g) == {m \in DOMAIN g : Arrivals(g, m) >= 2}

FlowInit ==
    /\ disc = "ControlFlow"
    /\ visitDagOnce \in BOOLEAN
    /\ forceClone = FALSE /\ dontForward = FALSE
    /\ \E g \in FlowGraphs :
         /\ heap = [n \in FlowNodes |-> [tag |-> 0, kids |-> g[n]]]
         /\ splitNodes \in SUBSET {n \in FlowNodes : Len(g[n]) >= 2}
         /\ filtered \in SUBSET JoinNodes(g)
    /\ input = heap
    /\ originOf = [n \in FlowNodes |-> n]
    /\ live = FALSE /\ visited = <<>> /\ stack = <<>>
    /\ prune_flag = FALSE
    /\ phase = "idle"
    /\ bugMsg = ""
    /\ rootResult = Null
    /\ log = <<>>
    /\ lastTry = NoCall /\ lastFin = NoCall
    /\ rewrites = 0 /\ flagOps = 0
    /\ chainLen = 0 /\ ctxtDepth = 0
    /\ BackwardsCompatibleBroken \in BOOLEAN
    /\ flow_join_points = <<>>
    /\ flowOf = <<{}>>
    /\ applies = 0
    /\ NoResolver /\ NoDriver

FlowNext ==
    \/ FlowInitApply
    \/ FlowEnter
    \/ FlowPreorder
    \/ FlowPostorder
    \/ FlowJoinExit

FlowSpec == FlowInit /\ [][FlowNext]_vars

(* --------------- applying the same visitor object again --------------- *)
\* The visitor of a finished pass is applied again to the same root.  The hooks of
\* the three plain classes prune but neither rewrite nor change flags here, and
\* the graphs may have an empty child slot.
MaxReapplies == 1

MaxApplyNulls == 1

NullGraphs == {g \in [Nodes -> KidSeqs] :
                  /\ EdgeCount(g) <= MaxEdges
                  /\ NullCount(g) <= MaxApplyNulls
                  /\ Reach(g, Root) = Nodes
                  /\ DfsOrder(g, Root, <<>>) = [i \in Nodes |-> i]}

ApplyInit ==
    /\ \/ /\ disc \in {"Inspector", "Modifier", "Transform"}
          /\ forceClone \in (IF disc = "Inspector" THEN {FALSE} ELSE BOOLEAN)
          /\ dontForward = FALSE
          /\ \E g \in NullGraphs : heap = [n \in Nodes |-> [tag |-> 0, kids |-> g[n]]]
          /\ BackwardsCompatibleBroken = FALSE
          /\ flowOf = <<>>
          /\ splitNodes = {}
          /\ filtered = {}
          /\ rewrites = MaxRewrites /\ flagOps = MaxFlagOps
       \/ FlowInit
    /\ visitDagOnce \in BOOLEAN
    /\ input = heap
    /\ originOf = [n \in DOMAIN heap |-> n]
    /\ live = FALSE /\ visited = <<>> /\ stack = <<>>
    /\ prune_flag = FALSE
    /\ phase = "idle"
    /\ bugMsg = ""
    /\ rootResult = Null
    /\ log = <<>>
    /\ lastTry = NoCall /\ lastFin = NoCall
    /\ chainLen = 0 /\ ctxtDepth = 0
    /\ flow_join_points = <<>>
    /\ applies = 0
    /\ NoResolver /\ NoDriver

\* the caller applies the visitor again once apply has returned: the nodes the
\* finished pass created are no longer referenced, the ghost record starts anew;
\* the visitor object keeps its members
Reapply ==
    /\ phase = "done" /\ applies < MaxReapplies
    /\ applies' = applies + 1
    /\ phase' = "idle"
    /\ heap' = input
    /\ originOf' = [n \in DOMAIN input |-> n]
    /\ rootResult' = Null
    /\ log' = <<>>
    /\ lastTry' = NoCall /\ lastFin' = NoCall
    /\ flowOf' = IF flowOf = <<>> THEN flowOf ELSE <<flowOf[1]>>
    /\ UNCHANGED <<input, disc, visitDagOnce, forceClone, dontForward, live, visited,
                   stack, prune_flag, bugMsg, rewrites, flagOps, chainLen, ctxtDepth,
                   BackwardsCompatibleBroken, flow_join_points, splitNodes, filtered,
                   resVars,
                   driver>>

ApplyNext ==
    \/ Next
    \/ FlowNext
    \/ Reapply

ApplySpec == ApplyInit /\ [][ApplyNext]_vars

(* ------------------- passes of all the kinds together ------------------ *)
EngineInit ==
    \/ Init
    \/ ApplyInit

EngineNext ==
    \/ Next
    \/ FlowNext

EngineSpec == EngineInit /\ [][EngineNext]_vars

(* ------------------------- reading the ghost log ---------------------- *)
Finished == phase = "done"

EventsOf(t) == {i \in DOMAIN log : log[i].t = t}

CountEv(t, n) == Cardinality({i \in EventsOf(t) : log[i].n = n})

Hooks == EventsOf("preorder") \cup EventsOf("postorder")

\* the hook calls that rewrote (edited the clone, returned null or another node)
RewriteEvents == {i \in Hooks : log[i].a[2] # "keep"}

\* the preorder calls that returned false (Inspector, Modifier) or called prune()
PruneEvents == {i \in EventsOf("preorder") : log[i].a[3]}

\* every apply_visitor call that has returned gave back the node it was passed
ReturnsArgument == \A i \in EventsOf("ret") : log[i].r = log[i].n

InputUntouched == \A m \in Nodes : heap[m] = input[m]

(* ------------------------------ C1 ------------------------------------ *)
\* C1: an Inspector never changes the tree: every apply_visitor call returns the
\* node it was given, the outermost call returns the root, no node is added to the
\* heap (no clone) and no field or child slot of any node changes.
C1_InspectorReadOnly ==
    disc = "Inspector" =>
        /\ heap = input
        /\ ReturnsArgument
        /\ (Finished => rootResult = Root)

\* an Inspector finished a pass in which a preorder returned false, a node was
\* revisited and a flag was changed from inside a hook
C1_Witness ==
    /\ disc = "Inspector" /\ Finished /\ rootResult = Root
    /\ EventsOf("revisit") # {}
    /\ PruneEvents # {}
    /\ flagOps > 0

(* ------------------------------ C2 ------------------------------------ *)
IdentityHooks == rewrites = 0 /\ flagOps = 0 /\ PruneEvents = {}

\* C2: a Modifier whose preorder returns true and whose hooks change nothing, with
\* forceClone off, returns the original root: every finish so far returned false,
\* the tracker's result of every visited node is the node itself (no entry for a
\* clone exists), every call returned its argument and the input is untouched.
C2_ModifierIdentity ==
    (disc = "Modifier" /\ ~forceClone /\ IdentityHooks) =>
        /\ (lastFin # NoCall => ~lastFin.ret)
        /\ DOMAIN visited \subseteq Nodes
        /\ \A n \in DOMAIN visited : ChangeTrackerResult(visited, n) = n
        /\ ReturnsArgument
        /\ InputUntouched
        /\ (Finished => rootResult = Root)

\* an identity Modifier pass over a graph with a shared node has finished
C2_Witness ==
    /\ disc = "Modifier" /\ ~forceClone /\ IdentityHooks
    /\ Finished /\ rootResult = Root
    /\ lastFin # NoCall /\ ~lastFin.ret
    /\ Len(heap) > NumOrig + 2

(* ------------------------------ C3 ------------------------------------ *)
\* the nodes of heap h reachable from node r (none from a null r)
ReachIn(h, r) == IF r = Null THEN {} ELSE Reach(KidsOf(h), r)

\* the input node the only rewriting hook call was made for
Rewritten == log[CHOOSE i \in RewriteEvents : TRUE].n

\* input node m is the rewritten node or one of its ancestors
OnPathToRewritten(m) == Rewritten \in ReachIn(input, m)

\* C3: after a Transform pass with forceClone off in which exactly one hook call
\* rewrote a node n, every node of the result that is not a node of the input was
\* made for n or for an ancestor of n, and no input node was changed: whatever is
\* off the paths from the root to n is in the result with its identity.
C3_StructuralSharing ==
    (disc = "Transform" /\ Finished /\ ~forceClone /\ rewrites = 1) =>
        /\ InputUntouched
        /\ \A x \in ReachIn(heap, rootResult) :
               x \notin Nodes => OnPathToRewritten(originOf[x])

\* a Transform rewrote a node below the root that has a sibling subtree; the root
\* was replaced and the sibling is in the result as it was
C3_Witness ==
    /\ disc = "Transform" /\ Finished /\ ~forceClone /\ rewrites = 1
    /\ rootResult \notin Nodes \cup {Null}
    /\ Len(input[Root].kids) = 2 /\ Len(heap[rootResult].kids) = 2
    /\ \E i, j \in 1..2 :
          /\ input[Root].kids[i] = Rewritten
          /\ heap[rootResult].kids[i] \notin Nodes \cup {Null}
          /\ ~OnPathToRewritten(input[Root].kids[j])
          /\ heap[rootResult].kids[j] = input[Root].kids[j]

(* ------------------------------ C4 ------------------------------------ *)
\* the preorder calls after which the children were visited
Descended == EventsOf("preorder") \ PruneEvents

\* the child slots holding node c that the descended visits went through
SlotsTo(c) ==
    {<<i, sl>> \in Descended \X (1..(MaxKids + 1)) :
        sl \in DOMAIN log[i].k /\ log[i].k[sl] = c}

\* a revisit or loop_revisit call stands alone between the entry and the return of
\* its apply_visitor call: nothing below the node is visited
NoDescentAt(i) ==
    /\ i > 1 /\ log[i - 1].t = "enter" /\ log[i - 1].n = log[i].n
    /\ i < Len(log) /\ log[i + 1].t = "ret" /\ log[i + 1].n = log[i].n
    /\ log[i - 1].d = log[i].d /\ log[i + 1].d = log[i].d

\* C4: in one apply of an Inspector whose hooks leave the visit flags alone, a node
\* is entered once per parent slot that a descended visit holds it in.  With
\* visitDagOnce, preorder runs at most once per node (exactly once in a finished
\* pass that reached the node) and every further occurrence calls revisit (loop_revisit while the node is
\* in progress) without descending.  Without visitDagOnce revisit is never called
\* and every occurrence outside the node's own visit runs preorder, and postorder
\* unless preorder returned false.
C4_VisitDagOnce ==
    (disc = "Inspector" /\ flagOps = 0) =>
        /\ \A i \in EventsOf("revisit") : NoDescentAt(i)
        /\ Finished =>
              \A c \in Nodes :
                  CountEv("enter", c) =
                      Cardinality(SlotsTo(c)) + (IF c = Root THEN 1 ELSE 0)
        /\ visitDagOnce =>
              \A c \in Nodes :
                  /\ CountEv("preorder", c) <= 1
                  /\ (Finished /\ CountEv("enter", c) > 0) =>
                        /\ CountEv("preorder", c) = 1
                        /\ CountEv("revisit", c) + CountEv("loop_revisit", c)
                               = CountEv("enter", c) - 1
        /\ ~visitDagOnce =>
              \A c \in Nodes :
                  /\ CountEv("revisit", c) = 0
                  /\ Finished =>
                        /\ CountEv("preorder", c)
                               = CountEv("enter", c) - CountEv("loop_revisit", c)
                        /\ CountEv("postorder", c)
                               = Cardinality({i \in Descended : log[i].n = c})

\* with visitDagOnce, a node with a child was reached through two parent slots:
\* one preorder, one revisit, and its child was entered once
C4_Witness ==
    /\ disc = "Inspector" /\ flagOps = 0 /\ visitDagOnce /\ Finished
    /\ PruneEvents = {}
    /\ \E c \in Nodes \ {Root} :
          /\ input[c].kids # <<>>
          /\ Cardinality(SlotsTo(c)) = 2
          /\ CountEv("preorder", c) = 1
          /\ CountEv("revisit", c) = 1
          /\ CountEv("enter", input[c].kids[1]) = 1

(* ------------------------------ C5 ------------------------------------ *)
\* the Inspector alone, with the fairness of a running program: a pass that can
\* take a step takes it
InspectorInit == Init /\ disc = "Inspector"

InspectorNext ==
    \/ InspectorInitApply
    \/ InspectorEnter
    \/ InspectorPreorder
    \/ InspectorPostorder

InspectorFair ==
    InspectorInit /\ [][InspectorNext]_vars /\ WF_vars(InspectorNext)

\* the child slots of the input that lead back to a node whose visit contains them
BackEdgesTo(c) ==
    {<<p, sl>> \in Nodes \X (1..(MaxKids + 1)) :
        /\ sl \in DOMAIN input[p].kids /\ input[p].kids[sl] = c
        /\ c <= p /\ p \in ReachIn(input, c)}

NoNodeTwiceOnStack ==
    \A i, j \in DOMAIN stack : i # j => stack[i].original # stack[j].original

\* C5: an Inspector pass terminates on every graph, cyclic ones included.  Reaching
\* a node whose visit is in progress calls loop_revisit, once, between the entry
\* and the return of that call: nothing is pushed, the tracker is left as it was,
\* so the node is still in progress and is finished only by its own visit; no node
\* is ever twice on the context stack.  In a pass that visits every node once and
\* descends everywhere, loop_revisit is called exactly once per back edge.
C5_CycleSafety ==
    /\ <>Finished
    /\ [](/\ NoNodeTwiceOnStack
          /\ \A i \in DOMAIN stack : TrackerBusy(visited, stack[i].original)
          /\ \A i \in EventsOf("loop_revisit") : NoDescentAt(i)
          /\ (Finished /\ visitDagOnce /\ flagOps = 0 /\ PruneEvents = {}) =>
                \A c \in Nodes :
                    CountEv("loop_revisit", c) = Cardinality(BackEdgesTo(c)))
    /\ [][(EventsOf("loop_revisit")' # EventsOf("loop_revisit")) =>
              /\ visited' = visited
              /\ Len(stack') = Len(stack)
              /\ TrackerBusy(visited', log'[Len(log')].n)]_vars

\* a pass over a graph with a cycle has finished: loop_revisit was called for the
\* node that is reachable from itself
C5_Witness ==
    /\ disc = "Inspector" /\ Finished /\ visitDagOnce /\ flagOps = 0
    /\ PruneEvents = {}
    /\ \E c \in Nodes : /\ BackEdgesTo(c) # {}
                        /\ c \in ReachIn(input, input[c].kids[1])
                        /\ CountEv("loop_revisit", c) = 1

(* ------------------------------ C6 ------------------------------------ *)
\* the return that ends the visit whose hook call is log[i] (Len(log) + 1 while
\* the visit is running)
EndOf(i) ==
    LET rets == {j \in EventsOf("ret") : j > i /\ log[j].d = log[i].d}
    IN IF rets = {} THEN Len(log) + 1
       ELSE CHOOSE j \in rets : \A j2 \in rets : j <= j2

\* the apply_visitor calls made for the children of the visit of log[i], in order
ChildCalls(i) ==
    LET Pick(j) == /\ log[j].t \in {"enter", "null"}
                   /\ log[j].d = log[i].d + 1
        F[j \in i..(EndOf(i) - 1)] ==
            IF j = i THEN <<>>
            ELSE IF Pick(j) THEN Append(F[j - 1], j) ELSE F[j - 1]
    IN F[EndOf(i) - 1]

\* what the call entered at log[j] returned, if it has returned
ReturnOf(j) ==
    IF log[j].t = "null" THEN <<Null>>
    ELSE LET rets == {k \in EventsOf("ret") : k > j /\ log[k].d = log[j].d}
         IN IF rets = {} THEN <<>>
            ELSE <<log[CHOOSE k \in rets : \A k2 \in rets : k <= k2].r>>

\* the preorder call log[i] pruned the visit: it returned false (Inspector,
\* Modifier), or called prune(), returned null or returned a node that was already
\* done (Transform)
Pruned(i) == log[i].a[3] \/ log[i].r = Null \/ log[i].a[4]

PostordersOf(i) ==
    {j \in EventsOf("postorder") : i < j /\ j < EndOf(i) /\ log[j].d = log[i].d}

\* C6: in every visit of a node as New or Revisit, by any of the three classes,
\* preorder is the first thing after the entry; if it pruned, no child is visited
\* and postorder is not called; otherwise the child slots are visited in declared
\* order (the k-th call is for slot k), postorder is called once, after the call for
\* the last slot has returned, the visit ends right after it, and the child slots
\* postorder sees hold what the calls for the children returned.
C6_VisitOrder ==
    \A i \in EventsOf("preorder") :
        LET calls == ChildCalls(i)
            posts == PostordersOf(i)
        IN /\ i > 1 /\ log[i - 1].t = "enter"
           /\ log[i - 1].n = log[i].n /\ log[i - 1].d = log[i].d
           /\ \A k \in DOMAIN calls : log[calls[k]].a = k
           /\ Pruned(i) => (calls = <<>> /\ posts = {})
           /\ Cardinality(posts) <= 1
           /\ (~Pruned(i) /\ EndOf(i) <= Len(log)) => posts # {}
           /\ \A j \in posts :
                 /\ EndOf(i) = j + 1
                 /\ Len(calls) = Len(log[j].k)
                 /\ \A k \in DOMAIN calls : ReturnOf(calls[k]) = <<log[j].k[k]>>

\* a Transform visited a node with two children, one of which was rewritten, and
\* its postorder saw the rewritten child in the slot
C6_Witness ==
    /\ disc = "Transform" /\ Finished
    /\ \E i \in EventsOf("preorder") :
          /\ ~Pruned(i) /\ Len(ChildCalls(i)) = 2
          /\ \E j \in PostordersOf(i) :
                /\ log[j].k[1] \notin Nodes \cup {Null}
                /\ ReturnOf(ChildCalls(i)[1]) = <<log[j].k[1]>>
    /\ \E i \in EventsOf("preorder") : Pruned(i)

(* ------------------------------ C7 ------------------------------------ *)
\* the entry is one of a visit in progress (of either tracker)
InProgress(e) == IF disc = "Inspector" THEN ~e.done ELSE e.visit_in_progress

\* the entry try_start inserts for a node n never seen, with visit_once = v
FreshEntry(n, v) ==
    IF disc = "Inspector" THEN [done |-> FALSE, visitOnce |-> v]
    ELSE [visit_in_progress |-> TRUE, visitOnce |-> v, result |-> n]

\* entry e marked in progress, nothing else changed
Reopened(e) ==
    IF disc = "Inspector" THEN [e EXCEPT !.done = FALSE]
    ELSE [e EXCEPT !.visit_in_progress = TRUE]

\* C7: every try_start(n, v) made by the engine, on either tracker: New and a new
\* in-progress entry with visit_once = v if n had no entry; Busy and no change if
\* its entry was in progress; Done and no change if it was finished with
\* visit_once set; Revisit and the entry in progress again, its visit_once (and
\* result) kept, if it was finished with visit_once clear.  No other entry changes
\* and v is not used for a node that has an entry.
C7_TryStart ==
    lastTry # NoCall =>
        LET n == lastTry.n
            b == lastTry.before
            a == lastTry.after
        IN IF n \notin DOMAIN b
           THEN /\ lastTry.status = "New"
                /\ DOMAIN a = DOMAIN b \cup {n}
                /\ a[n] = FreshEntry(n, lastTry.v)
                /\ \A m \in DOMAIN b : a[m] = b[m]
           ELSE IF InProgress(b[n])
           THEN lastTry.status = "Busy" /\ a = b
           ELSE IF b[n].visitOnce
           THEN lastTry.status = "Done" /\ a = b
           ELSE /\ lastTry.status = "Revisit"
                /\ a = [b EXCEPT ![n] = Reopened(b[n])]

\* a ChangeTracker reopened a finished node whose visit_once flag was clear,
\* though the call passed visit_once = true
C7_Witness ==
    /\ disc # "Inspector" /\ lastTry # NoCall
    /\ lastTry.status = "Revisit"
    /\ lastTry.v
    /\ lastTry.after[lastTry.n].visit_in_progress
    /\ ~lastTry.after[lastTry.n].visitOnce

(* ------------------------------ C8 ------------------------------------ *)
\* the finish calls of the last step that made any: finish(n, final_result) and,
\* after a substitution, finish(preorder_result, final_result)
FinCalls ==
    IF lastFin = NoCall THEN {}
    ELSE {[n |-> lastFin.n, final |-> lastFin.final, before |-> lastFin.before,
           ret |-> lastFin.ret, after |-> lastFin.after]}
         \cup (IF lastFin.first = NoCall THEN {}
               ELSE {[n |-> lastFin.first.n, final |-> lastFin.first.final,
                      before |-> lastFin.first.before, ret |-> lastFin.first.ret,
                      after |-> lastFin.first.after]})

\* the tree changed under c.n, as the claim lists it
TreeChanged(c) ==
    \/ c.final = Null
    \/ ~NodeEq(lastFin.heap, c.final, c.n)
    \/ lastFin.force
    \/ c.final # c.n /\ c.final \in DOMAIN c.before

\* the value returned by each finish call is the one the claim lists
C8_ReturnValue == \A c \in FinCalls : c.ret <=> TreeChanged(c)

\* after a false return the result of orig is orig
C8_ResultKept ==
    \A c \in FinCalls : ~c.ret => ChangeTrackerResult(c.after, c.n) = c.n

\* C8 (as claimed): finish(orig, final) returns true exactly when the tree changed
\* under orig (final null, structurally different, forceClone, or a coalesce with
\* a different node visited before), false otherwise, in particular for final =
\* orig; and whenever it returns false, result(orig) is orig.
C8_FinishReturn == C8_ReturnValue /\ C8_ResultKept

(* ------------------------------ C9 ------------------------------------ *)
\* finish stored a new node: its second branch was taken
StoredNew(c) ==
    /\ c.final # Null
    /\ lastFin.force \/ (c.final # c.n /\ ~NodeEq(lastFin.heap, c.final, c.n))

IsDone(v, n) ==
    /\ ChangeTrackerDone(v, n)
    /\ ChangeTrackerFinalResult(v, n) = n
    /\ \A d \in BOOLEAN : ChangeTrackerTryStart(v, n, d).status = "Done"

\* C9 (as claimed): after finish(orig, final) stored a new final, final is Done:
\* done(final), try_start(final) returns Done and finalResult(final) = final,
\* whatever orig's visit_once flag and whatever entry final had.
C9_FinalIsDone ==
    \A c \in FinCalls : StoredNew(c) => IsDone(c.after, c.final)

\* C9 (amended): after finish(orig, final) stored a new final, final has an entry.
\* If it had none, the new entry is finished, has result final and carries orig's
\* visit_once flag, so final is Done exactly when orig's visit_once flag is set
\* (otherwise a later try_start(final) returns Revisit).  An entry that final
\* already had is left as it was.
C9_FinalRegistered ==
    \A c \in FinCalls : StoredNew(c) =>
        /\ c.final \in DOMAIN c.after
        /\ c.final \notin DOMAIN c.before =>
              /\ c.after[c.final] = [visit_in_progress |-> FALSE,
                                     visitOnce |-> c.before[c.n].visitOnce,
                                     result |-> c.final]
              /\ IsDone(c.after, c.final) <=> c.before[c.n].visitOnce
              /\ ~c.before[c.n].visitOnce =>
                    \A d \in BOOLEAN :
                        ChangeTrackerTryStart(c.after, c.final, d).status = "Revisit"
        /\ (c.final \in DOMAIN c.before /\ c.final # c.n) =>
              c.after[c.final] = c.before[c.final]

\* a changed clone was stored for a node whose visit_once flag is set: the clone
\* is Done
C9_Witness ==
    \E c \in FinCalls :
        /\ StoredNew(c) /\ ~lastFin.force
        /\ c.final \notin DOMAIN c.before
        /\ c.before[c.n].visitOnce
        /\ IsDone(c.after, c.final)

(* ------------------------------ C10 ----------------------------------- *)
\* the returns of the visits that ran preorder (New or Revisit)
VisitReturns ==
    {j \in EventsOf("ret") : j > 1 /\ log[j - 1].t \in {"preorder", "postorder"}}

\* C10: with forceClone set, in a Modifier or Transform pass whose hooks rewrite
\* nothing, every finish returns true and every visit returns a node that is not a
\* node of the input (a clone made in this pass) and is structurally equal to the
\* node visited; the outermost call returns such a clone of the root.
C10_ForceClone ==
    (disc # "Inspector" /\ forceClone /\ rewrites = 0) =>
        /\ \A c \in FinCalls : c.ret
        /\ \A j \in VisitReturns :
              /\ log[j].r \notin Nodes \cup {Null}
              /\ log[j].r # log[j].n
              /\ NodeEq(heap, log[j].r, log[j].n)
        /\ InputUntouched
        /\ Finished => (rootResult \notin Nodes \cup {Null}
                        /\ NodeEq(heap, rootResult, Root))

\* a Modifier with forceClone and hooks that change nothing finished a pass over
\* a graph: the root returned is a clone, and so are its children
C10_Witness ==
    /\ disc = "Modifier" /\ forceClone /\ IdentityHooks /\ Finished
    /\ rootResult \notin Nodes \cup {Null}
    /\ heap[rootResult].kids # <<>>
    /\ \A i \in DOMAIN heap[rootResult].kids :
          heap[rootResult].kids[i] \notin Nodes \cup {Null}
    /\ NodeEq(heap, rootResult, Root)

(* ------------------------------ C11 ----------------------------------- *)
\* try_start of the tracker the running class uses
TryStartOf(v, n, d) ==
    IF disc = "Inspector" THEN TrackerTryStart(v, n, d)
    ELSE ChangeTrackerTryStart(v, n, d)

\* the step is a preorder hook that called revisit_visited() and went on to the
\* children, so that the step's only change of the tracker is that call
RevisitVisitedStep ==
    /\ Len(log') = Len(log) + 1
    /\ log'[Len(log')].t = "preorder"
    /\ log'[Len(log')].a[1] = "revisit_visited"
    /\ log'[Len(log')].a[2] \in {"keep", "edit"}
    /\ stack' # <<>> /\ stack'[Len(stack')].pc = "kids"

\* C11: revisit_visited() on either tracker removes exactly the entries whose visit
\* has finished and leaves every entry in progress as it was (flag and result
\* included); afterwards try_start returns New for a removed node and Busy for a
\* preserved one.
C11_RevisitVisited ==
    [][RevisitVisitedStep =>
          /\ DOMAIN visited' = {n \in DOMAIN visited : InProgress(visited[n])}
          /\ \A n \in DOMAIN visited' : visited'[n] = visited[n]
          /\ \A n \in DOMAIN visited, d \in BOOLEAN :
                TryStartOf(visited', n, d).status =
                    IF InProgress(visited[n]) THEN "Busy" ELSE "New"]_vars

\* preorder of a node called revisit_visited() after a sibling had been finished:
\* the sibling's entry is gone, the node's own and its parent's are still there
C11_Witness ==
    /\ log # <<>> /\ Len(stack) >= 2
    /\ log[Len(log)].t = "preorder"
    /\ log[Len(log)].a[1] = "revisit_visited"
    /\ Top.pc = "kids"
    /\ \A i \in DOMAIN stack : stack[i].original \in DOMAIN visited
    /\ \E j \in EventsOf("ret") : /\ log[j - 1].t \in {"preorder", "postorder"}
                                  /\ log[j].n \notin DOMAIN visited

(* ------------------------------ C12 ----------------------------------- *)
\* the nodes whose visit the frame holds open: the node it was entered for and,
\* in a Transform, the substitute its preorder returned (try_start-ed at line 574)
ActiveOf(f) == {f.original} \cup (IF f.extra THEN {f.pre} ELSE {})

\* C12: at every point of a pass of any of the three classes no node has two
\* active visits on the context stack, a substitute returned by a Transform's
\* preorder included, and every node with an active visit has a tracker entry
\* that is in progress, also after revisit_visited() or visitAgain() was called.
C12_OneActiveVisit ==
    /\ \A i, j \in DOMAIN stack :
          i # j => ActiveOf(stack[i]) \cap ActiveOf(stack[j]) = {}
    /\ \A i \in DOMAIN stack : \A m \in ActiveOf(stack[i]) :
          m \in DOMAIN visited /\ InProgress(visited[m])

\* a Transform's preorder called revisit_visited() and returned another node of
\* the input as substitute; the descent below came back to that node and found it
\* busy (loop_revisit) while the frame was still open
C12_Witness ==
    /\ disc = "Transform" /\ phase = "run"
    /\ \E i \in DOMAIN stack :
          /\ stack[i].extra /\ stack[i].pre \in Nodes
          /\ \E j \in EventsOf("preorder") :
                /\ log[j].n = stack[i].original /\ log[j].d = i
                /\ log[j].a[1] = "revisit_visited"
                /\ \E k \in EventsOf("loop_revisit") :
                      k > j /\ log[k].n = stack[i].pre

(* ------------------------------ C16 ----------------------------------- *)
\* the preorder calls of a Transform that returned a substitute which was not
\* Done, taken in the state right after the step that handled it: lastTry is the
\* try_start(preorder_result, shouldVisitOnce(n)) of that step
SubstTried ==
    {j \in EventsOf("preorder") :
        /\ disc = "Transform"
        /\ log[j].a[2] \in {"fresh", "subst"} /\ ~log[j].a[4]
        /\ \A k \in (j + 1)..Len(log) : log[k].t \notin {"enter", "null", "preorder"}
        /\ lastTry # NoCall /\ lastTry.n = log[j].r}

\* the pass was aborted with "IR loop detected" in the visit of log[j], before
\* anything else was called
LoopDetected(j) ==
    /\ phase = "bug" /\ bugMsg = "IR loop detected"
    /\ j = Len(log)
    /\ stack # <<>> /\ Top.original = log[j].n /\ Top.pc = "pre"

\* the substitute is in progress after the step's try_start
SubstStarted(j) ==
    /\ bugMsg # "IR loop detected"
    /\ lastTry.status \in {"New", "Revisit"}
    /\ lastTry.after[lastTry.n].visit_in_progress

\* C16 (as claimed): a substitute whose visit is in progress aborts the pass with
\* "IR loop detected" and is not descended into; any other substitute is entered
\* in the tracker as in progress with the visit_once flag of the original node.
C16_SubstituteLoop ==
    \A j \in SubstTried :
        LET p == lastTry.n
            b == lastTry.before
        IN IF p \in DOMAIN b /\ b[p].visit_in_progress
           THEN LoopDetected(j)
           ELSE /\ SubstStarted(j)
                /\ lastTry.after[p].visitOnce = b[log[j].n].visitOnce

\* C16 (amended): a substitute whose visit is in progress aborts the pass with
\* "IR loop detected" and is not descended into; any other substitute is in
\* progress in the tracker before its clone is visited: a substitute without an
\* entry gets one with the visit_once flag of the original node, a substitute
\* that has a finished entry (visit_once clear) is reopened and keeps its own
\* flag and result.
C16_SubstituteEntered ==
    \A j \in SubstTried :
        LET p == lastTry.n
            b == lastTry.before
        IN IF p \in DOMAIN b /\ b[p].visit_in_progress
           THEN LoopDetected(j)
           ELSE /\ SubstStarted(j)
                /\ lastTry.v = b[log[j].n].visitOnce
                /\ IF p \in DOMAIN b
                   THEN /\ lastTry.status = "Revisit"
                        /\ lastTry.after[p].visitOnce = b[p].visitOnce
                        /\ lastTry.after[p].result = b[p].result
                   ELSE /\ lastTry.status = "New"
                        /\ lastTry.after[p] =
                              [visit_in_progress |-> TRUE,
                               visitOnce |-> b[log[j].n].visitOnce, result |-> p]

\* preorder returned an ancestor of the node as substitute: the pass was aborted
\* with "IR loop detected"
C16_Witness ==
    \E j \in SubstTried :
        /\ LoopDetected(j)
        /\ \E i \in DOMAIN stack : i < Len(stack) /\ stack[i].original = lastTry.n

(* ------------------------------ C15 ----------------------------------- *)
\* C15 (as claimed): pushing a frame fails exactly when the resulting depth is
\* greater than 10000: a descent whose deepest frame has depth 10000 completes,
\* and no frame of depth 10001 is created.
C15_DepthLimit ==
    /\ phase = "bug" => PushDepth(ctxtDepth) > MaxContextDepth
    /\ ctxtDepth <= MaxContextDepth
    /\ chainLen <= MaxContextDepth => phase # "bug"

\* C15 (amended): pushing a frame fails exactly when the resulting depth is 10000
\* or more: a descent whose deepest frame has depth 9999 completes, a descent
\* that needs a frame of depth 10000 is aborted by the assertion when it pushes
\* that frame, and no frame of depth 10000 is created.
C15_DepthLimitAmended ==
    /\ phase = "bug" => (/\ PushDepth(ctxtDepth) = MaxContextDepth
                         /\ chainLen >= MaxContextDepth)
    /\ ctxtDepth < MaxContextDepth
    /\ chainLen < MaxContextDepth => phase # "bug"
    /\ phase \in {"ascend", "done"} => chainLen < MaxContextDepth
    /\ (phase = "descend" /\ ctxtDepth = MaxContextDepth - 1) =>
          (ENABLED ChainPush <=> chainLen >= MaxContextDepth)

\* a descent of a chain of 10000 nodes was aborted when it pushed the frame of
\* depth 10000
C15_Witness ==
    /\ phase = "bug" /\ chainLen = MaxContextDepth
    /\ ctxtDepth = MaxContextDepth - 1

(* ---------------------------------------------------------------------- *)
\* the visits (preorder reached) of node n and the calls of join_flows on it
VisitsOf(n) == {i \in EventsOf("visit") : log[i].n = n}

ArrivalsAt(n) == {i \in EventsOf("arrive") : log[i].n = n}

\* the diamond 1 -> {2, 4} -> 3, node 1 splitting the flow, no join point filtered
Diamond ==
    /\ disc = "ControlFlow"
    /\ KidsOf(heap) = <<(<<2, 4>>), (<<3>>), (<<>>), (<<3>>)>>
    /\ splitNodes = {1}
    /\ filtered = {}

\* C17: in the diamond A -> {B, C} -> D (A = 1, B = 2, C = 4, D = 3) whose hooks
\* prune nothing, no node is visited twice, B and C are visited with the state
\* after A, D is visited only after its second arrival and with the merge of the
\* states coming from B and C, and when the pass is over it has not aborted, all
\* four nodes have been visited and D's join record is done.
C17_Diamond ==
    (Diamond /\ PruneEvents = {}) =>
        /\ \A n \in FlowNodes : Cardinality(VisitsOf(n)) <= 1
        /\ \A i \in VisitsOf(1) : log[i].a.st = {}
        /\ \A i \in VisitsOf(2) \cup VisitsOf(4) : log[i].a.st = FlowTransfer({}, 1)
        /\ \A i \in VisitsOf(3) :
               /\ Cardinality({j \in ArrivalsAt(3) : j < i}) = 2
               /\ log[i].a.st = FlowMerge(FlowTransfer({1}, 2), FlowTransfer({1}, 4))
        /\ phase # "bug"
        /\ phase = "done" =>
               /\ \A n \in FlowNodes : Cardinality(VisitsOf(n)) = 1
               /\ Cardinality(ArrivalsAt(3)) = 2
               /\ flow_join_points[3].done

C17_Witness ==
    /\ Diamond /\ PruneEvents = {} /\ phase = "done"
    /\ VisitsOf(3) # {}
    /\ flow_join_points[3].done

(* ---------------------------------------------------------------------- *)
\* the arrivals at the node of arrival i up to and including i
ArrivalsUpTo(i) == {j \in ArrivalsAt(log[i].n) : j <= i}

\* the union of the states that arrived at the node of arrival i up to and
\* including i
ArrivedStates(i) == UNION {log[j].a.st0 : j \in ArrivalsUpTo(i)}

\* C18: the k-th arrival at a join point leaves its count k below the count of
\* the pre-pass; an arrival that leaves count >= 0 does not visit the node and
\* folds its state into the accumulator (a clone of it if the accumulator is unset,
\* the merge otherwise) without changing the arriving state; an arrival that leaves
\* count < 0 leaves the accumulator alone, merges it into the arriving state and
\* goes on to try_start with that state; so the first such arrival visits with
\* the merge of all the states that arrived.
C18_JoinCount ==
    disc = "ControlFlow" =>
        \A i \in EventsOf("arrive") :
            LET e == log[i].a
                n == log[i].n
            IN /\ e.cnt = SetupJoinPoints(KidsOf(heap))[n].count
                              - Cardinality(ArrivalsUpTo(i))
               /\ e.cnt >= 0 =>
                      /\ e.out # "visit"
                      /\ e.st1 = e.st0
                      /\ e.acc1 = CloneOf(IF e.acc0.set THEN FlowMerge(e.acc0.st, e.st0)
                                          ELSE e.st0)
               /\ e.cnt < 0 =>
                      /\ e.out = "visit"
                      /\ e.acc1 = e.acc0
                      /\ e.st1 = FlowMerge(e.st0, e.acc0.st)
                      /\ log[i + 1].n = n
                      /\ log[i + 1].t \in {"visit", "revisit", "loop_revisit"}
                      /\ log[i + 1].t = "visit" => log[i + 1].a.st = e.st1
               /\ e.cnt = -1 => e.st1 = ArrivedStates(i)

C18_Witness ==
    /\ disc = "ControlFlow" /\ phase = "done"
    /\ \E i, j \in EventsOf("arrive") :
          /\ i < j /\ log[i].n = log[j].n
          /\ log[i].a.cnt >= 0 /\ log[i].a.acc0.set /\ log[i].a.acc0.st # log[i].a.acc1.st
          /\ log[j].a.cnt = -1 /\ log[j].a.st1 # log[j].a.st0
          /\ log[j + 1].t = "visit"

(* ---------------------------------------------------------------------- *)
\* the arrivals at a join point whose visit had completed (post_join_flows had
\* marked it done) before
Reentries ==
    {i \in EventsOf("arrive") :
        \E j \in EventsOf("post_join") : j < i /\ log[j].n = log[i].n}

MoreThanOnce == "flow join point visited more than once!"

\* C19 (as claimed): once a join point has been visited and marked done, a
\* further arrival at it aborts the pass with "flow join point visited more than
\* once"; no join point is visited twice.
C19_ReentryAborts ==
    disc = "ControlFlow" =>
        /\ Reentries # {} => (phase = "bug" /\ bugMsg = MoreThanOnce)
        /\ \A n \in FlowNodes : n \in DOMAIN flow_join_points =>
               Cardinality(VisitsOf(n)) <= 1

\* C19 (amended): a further arrival at a join point that is done leaves its count
\* below -1, merges the accumulator into the arriving state and goes on to
\* try_start (a New or Revisit answer visits the node again); every
\* post_join_flows finds the record not done or its count below -1, so the pass
\* never aborts with "flow join point visited more than once".
C19_ReentryMerges ==
    disc = "ControlFlow" =>
        /\ bugMsg # MoreThanOnce
        /\ \A i \in Reentries :
               /\ log[i].a.cnt < -1
               /\ log[i].a.out = "visit"
               /\ log[i].a.st1 = FlowMerge(log[i].a.st0, log[i].a.acc0.st)
               /\ log[i + 1].n = log[i].n
               /\ log[i + 1].t \in {"visit", "revisit", "loop_revisit"}
        /\ \A j \in EventsOf("post_join") : ~log[j].a.done0 \/ log[j].a.cnt < -1

C19_Witness ==
    /\ disc = "ControlFlow" /\ phase = "done"
    /\ \E i \in Reentries :
          /\ log[i + 1].t = "visit"
          /\ \E j \in EventsOf("post_join") :
                j > i /\ log[j].n = log[i].n /\ log[j].a.done0

(* ---------------------------------------------------------------------- *)
\* the last post_join_flows that ran on join point n
LastPostJoin(n) ==
    Highest({j \in EventsOf("post_join") : log[j].n = n})

\* C20 (as claimed): post_join_flows(j) copies the accumulator into the visiting
\* visitor and leaves the accumulator unchanged.
C20_CopyIntoThis ==
    disc = "ControlFlow" =>
        \A j \in EventsOf("post_join") :
            /\ log[j].a.this1 = log[j].a.acc0.st
            /\ log[j].a.acc1 = log[j].a.acc0

\* C20 (amended): post_join_flows(j) marks j done and copies the state of the
\* visiting visitor into the accumulator: the accumulator becomes that state, the
\* visitor's own state is unchanged; the table has entries for join points only,
\* and post_join_flows acts on no other node.
C20_CopyIntoAccumulator ==
    disc = "ControlFlow" =>
        /\ \A j \in EventsOf("post_join") :
               /\ log[j].a.acc1 = CloneOf(log[j].a.this0)
               /\ log[j].a.this1 = log[j].a.this0
               /\ log[j].n \in DOMAIN flow_join_points
               /\ flow_join_points[log[j].n].done
               /\ j = LastPostJoin(log[j].n) =>
                      flow_join_points[log[j].n].vclone = CloneOf(log[j].a.this0)
        /\ phase # "idle" =>
               DOMAIN flow_join_points = JoinNodes(KidsOf(heap)) \ filtered
        /\ \A n \in DOMAIN flow_join_points :
               flow_join_points[n].done =>
                   \E j \in EventsOf("post_join") : log[j].n = n

C20_Witness ==
    /\ disc = "ControlFlow" /\ phase = "done"
    /\ \E j \in EventsOf("post_join") :
          /\ log[j].a.acc0.set
          /\ log[j].a.this0 # log[j].a.acc0.st
          /\ flow_join_points[log[j].n].vclone.st = log[j].a.this0

(* ---------------------------------------------------------------------- *)
\* the calls of apply_visitor on node n recorded since the current apply began
EntersOf(n) == {i \in EventsOf("enter") : log[i].n = n}

\* what the pre-pass of the current apply computes for the graph
FreshJoinTable ==
    [n \in JoinNodes(KidsOf(heap)) \ filtered |->
        [count |-> Arrivals(KidsOf(heap), n) - 1, vclone |-> NoClone, done |-> FALSE]]

\* C13: in every apply, the first one or a later one of the same visitor object:
\* no tracker is held outside an apply; a try_start that does not answer New is on
\* a node this apply has entered before (or on a node this apply created and
\* registered as a final result); and for a ControlFlowVisitor the join
\* table at the start of the apply is exactly what the pre-pass computes for the
\* graph, and later holds only counts lowered by this apply's arrivals,
\* accumulators set by them and done flags set by this apply's post_join_flows.
C13_FreshPerApply ==
    /\ phase \in {"idle", "done"} => (visited = <<>> /\ ~live)
    /\ (phase = "run" /\ log = <<>>) => (visited = <<>> /\ stack = <<>>)
    /\ (lastTry.n # Null /\ lastTry.status # "New") =>
           \/ Cardinality(EntersOf(lastTry.n)) >= 2
           \/ lastTry.n \notin DOMAIN input
    /\ (disc = "ControlFlow" /\ phase # "idle") =>
           /\ DOMAIN flow_join_points = DOMAIN FreshJoinTable
           /\ log = <<>> => flow_join_points = FreshJoinTable
           /\ \A n \in DOMAIN flow_join_points :
                  /\ flow_join_points[n].count =
                         FreshJoinTable[n].count - Cardinality(ArrivalsAt(n))
                  /\ flow_join_points[n].vclone.set => ArrivalsAt(n) # {}
                  /\ flow_join_points[n].done =>
                         \E j \in EventsOf("post_join") : log[j].n = n

C13_Witness ==
    /\ applies = 1 /\ phase = "done"
    /\ disc = "ControlFlow"
    /\ \E n \in DOMAIN flow_join_points : flow_join_points[n].done
    /\ lastTry.n # Null /\ lastTry.status = "New"

(* ---------------------------------------------------------------------- *)
\* the passes in which no apply_visitor runs inside a join_flows that waits
Unnested == disc = "ControlFlow" => BackwardsCompatibleBroken

\* the calls of apply_visitor made from a frame of depth d - 1 (or, d = 1, by the
\* top-level apply) and those of them that have returned
CallsAt(d) == {i \in DOMAIN log : log[i].t \in {"enter", "null"} /\ log[i].d = d}

ReturnsAt(d) == {i \in DOMAIN log : log[i].t \in {"ret", "null"} /\ log[i].d = d}

\* the call that pushed the frame of depth d: the last one made at that depth
OpenOf(d) == Highest(CallsAt(d))

ArrivalIndex(i) == Cardinality(ArrivalsUpTo(i))

\* the arrivals of a pass in legacy mode at the join points the pre-pass found
LegacyArrivals ==
    IF disc = "ControlFlow" /\ BackwardsCompatibleBroken THEN EventsOf("arrive") ELSE {}

\* C21 (as claimed): in legacy mode the counter of a join point with k parents
\* starts at k, the first k - 1 arrivals are skipped and the k-th arrival, which
\* brings the counter to zero, visits the node.
C21_VisitAtZero ==
    \A i \in LegacyArrivals :
        LET k == Arrivals(KidsOf(heap), log[i].n)
        IN /\ log[i].a.cnt = k - ArrivalIndex(i)
           /\ ArrivalIndex(i) < k => log[i].a.out = "skip"
           /\ ArrivalIndex(i) = k => (log[i].a.out = "visit" /\ log[i].a.cnt = 0)

\* C21 (amended): in legacy mode the counter of a join point reached over k slots
\* starts at k - 1; each of the first k - 1 arrivals leaves it at zero or above
\* and is skipped (apply_visitor returns at once: no frame, no try_start, no
\* preorder); the k-th arrival brings it to -1, below zero, and goes on to visit.
C21_VisitBelowZero ==
    \A i \in LegacyArrivals :
        LET k == Arrivals(KidsOf(heap), log[i].n)
        IN /\ k >= 2
           /\ log[i].a.cnt = (k - 1) - ArrivalIndex(i)
           /\ ArrivalIndex(i) < k =>
                  /\ log[i].a.cnt >= 0
                  /\ log[i].a.out = "skip"
                  /\ log[i - 1].t = "enter" /\ log[i + 1].t = "ret"
                  /\ VisitsOf(log[i].n) = {j \in VisitsOf(log[i].n) : j > i}
           /\ ArrivalIndex(i) = k =>
                  /\ log[i].a.cnt = -1
                  /\ log[i].a.out = "visit"
                  /\ log[i + 1].t \in {"visit", "revisit", "loop_revisit"}
                  /\ log[i + 1].n = log[i].n

C21_Witness ==
    /\ phase = "done"
    /\ \E i \in LegacyArrivals :
          /\ Arrivals(KidsOf(heap), log[i].n) = 3
          /\ ArrivalIndex(i) = 3
          /\ log[i + 1].t = "visit"
          /\ log[i].a.cnt = -1

(* ------------------- ResolveReferences: the programs ------------------ *)
\* The resolver is an Inspector with visitDagOnce = false applied to a P4Program.
\* The programs are trees: the program holds an optional match_kind group, up to
\* two global declarations and a scope S1; S1 holds an optional declaration and a
\* scope S2; S2 holds an optional declaration and one use of the name "x".  
MaxDecls == 2

\* where the nodes of a program sit in the heap
Slot ==
    [program |-> 1, group |-> 2, globalA |-> 3, globalB |-> 4, scope1 |-> 5,
     decl1 |-> 6, scope2 |-> 7, decl2 |-> 8, member |-> 9, use |-> 10, sub1 |-> 11,
     sub2 |-> 12, sub3 |-> 13, list |-> 14]

\* source positions: none is an invalid SourceInfo
Pos == [none |-> 0, before |-> 1, use |-> 2, after |-> 3]

\* the class hierarchy of the node types used (generated IR classes)
GeneralNamespaces == {"P4Program", "Type_Extern"}

\* the parameter lists a scope exposes as its nested namespaces
NestedLists == {"ParameterList", "TypeParameters"}

SimpleNamespaces ==
    {"P4Control", "Function", "Method", "BlockStatement", "Type_Struct",
     "Declaration_MatchKind"} \cup NestedLists

Namespaces == GeneralNamespaces \cup SimpleNamespaces

IDeclarations ==
    {"Declaration_Variable", "Parameter", "Type_Var", "ParserState", "Type_Struct",
     "Function", "Method", "P4Control", "Declaration_Instance", "Declaration_ID",
     "Type_Extern", "StructField"}

\* the subclasses of IR::Declaration among them
Declarations ==
    {"Declaration_Variable", "Parameter", "ParserState", "Function", "Method",
     "Declaration_Instance", "Declaration_ID", "StructField"}

Types ==
    {"Type_Var", "Type_Struct", "P4Control", "Type_Name", "Type_Specialized",
     "Type_Extern"}

TypeDeclarations == {"Type_Struct", "P4Control", "Type_Extern"}

Functionals == {"Function", "Method"}

Expressions == {"PathExpression", "MethodCallExpression", "This", "Member"}

MkNode(type, name, pos, kids) ==
    [tag |-> 0, kids |-> kids, type |-> type, name |-> name, pos |-> pos,
     absolute |-> FALSE, matches |-> FALSE, addr |-> 0]

Elems(seq) == {seq[i] : i \in DOMAIN seq}

\* a slot of the program that holds no node
Absent == MkNode("none", "", Pos.none, <<>>)

\* the declarations a slot may hold (Absent: none)
GlobalAOptions ==
    {Absent}
    \cup {MkNode(t, "x", p, <<>>) :
             t \in {"Declaration_Variable", "Type_Struct"}, p \in {Pos.before, Pos.after}}
    \cup {[MkNode("Function", "x", Pos.before, <<>>) EXCEPT !.matches = m] : m \in BOOLEAN}

GlobalBOptions ==
    {Absent}
    \cup {[MkNode("Function", "x", Pos.before, <<>>) EXCEPT !.matches = m] : m \in BOOLEAN}

Decl1Options ==
    {Absent}
    \cup {MkNode(t, "x", p, <<>>) :
             t \in {"Parameter", "Declaration_Variable"}, p \in {Pos.before, Pos.after}}
    \cup {MkNode(t, "x", Pos.after, <<>>) : t \in {"Type_Var", "ParserState"}}

Decl2Options ==
    {Absent}
    \cup {MkNode(t, "x", p, <<>>) :
             t \in {"Declaration_Variable", "Type_Struct"}, p \in {Pos.before, Pos.after}}

Scope1Types == {"P4Control", "Function", "Declaration_Instance", "Method", "Type_Struct"}

Scope2Types == {"BlockStatement", "Function", "Declaration_Instance", "Declaration_Variable"}

\* the uses: a path expression (absolute or not, with or without a source
\* position), a type name, `this`, a table key, a call
Uses ==
    {[kind |-> "path", abs |-> FALSE, pos |-> Pos.use],
     [kind |-> "path", abs |-> TRUE, pos |-> Pos.use],
     [kind |-> "path", abs |-> FALSE, pos |-> Pos.none],
     [kind |-> "type", abs |-> FALSE, pos |-> Pos.use],
     [kind |-> "type", abs |-> TRUE, pos |-> Pos.use],
     [kind |-> "this", abs |-> FALSE, pos |-> Pos.use],
     [kind |-> "key", abs |-> FALSE, pos |-> Pos.use],
     [kind |-> "call", abs |-> FALSE, pos |-> Pos.use]}

\* the slots of a sequence that hold a node
Held(h, ids) ==
    LET keep[i \in 0..Len(ids)] ==
            IF i = 0 THEN <<>>
            ELSE IF h[ids[i]] = Absent THEN keep[i - 1] ELSE Append(keep[i - 1], ids[i])
    IN keep[Len(ids)]

\* the nested namespace of a scope of type t1 that holds the declaration d1:
\* the type parameters of a control, function or struct, the parameters of a
\* control; "none" when the scope holds d1 directly
ListFor(t1, d1) ==
    IF d1.type = "Type_Var" /\ t1 \in {"P4Control", "Function", "Type_Struct"}
    THEN "TypeParameters"
    ELSE IF d1.type = "Parameter" /\ t1 = "P4Control" THEN "ParameterList"
         ELSE "none"

\* the program built from the choices
Program(mk, ga, gb, t1, d1, t2, d2, use) ==
    LET raw == <<[MkNode("P4Program", "", Pos.none, <<>>) EXCEPT !.addr = 1],
                 IF mk THEN MkNode("Declaration_MatchKind", "", Pos.before, <<Slot.member>>)
                 ELSE Absent,
                 ga, gb,
                 MkNode(t1, IF t1 = "Type_Struct" THEN "x" ELSE "s", Pos.before, <<>>),
                 d1,
                 MkNode(t2, IF t2 = "Declaration_Variable" THEN "x" ELSE "t", Pos.before,
                        <<>>),
                 d2,
                 IF mk THEN MkNode("Declaration_ID", "x", Pos.before, <<>>) ELSE Absent,
                 CASE use.kind = "path" ->
                        [MkNode("PathExpression", "x", use.pos, <<>>)
                            EXCEPT !.absolute = use.abs]
                   [] use.kind = "type" ->
                        [MkNode("Type_Name", "x", use.pos, <<>>)
                            EXCEPT !.absolute = use.abs]
                   [] use.kind = "this" -> MkNode("This", "", use.pos, <<>>)
                   [] use.kind = "key" ->
                        MkNode("KeyElement", "", use.pos,
                               <<Slot.sub1, Slot.sub2, Slot.sub3>>)
                   [] OTHER -> MkNode("MethodCallExpression", "x", use.pos,
                                      <<Slot.sub2>>),
                 IF use.kind = "key" THEN MkNode("Annotations", "", Pos.none, <<>>)
                 ELSE Absent,
                 IF use.kind \in {"key", "call"}
                 THEN MkNode("PathExpression", "x", use.pos, <<>>)
                 ELSE Absent,
                 IF use.kind = "key" THEN MkNode("PathExpression", "x", use.pos, <<>>)
                 ELSE Absent,
                 IF ListFor(t1, d1) = "none" THEN Absent
                 ELSE MkNode(ListFor(t1, d1), "", Pos.before, <<Slot.decl1>>)>>
        h1 == [raw EXCEPT ![Slot.program].kids = Held(raw, <<Slot.group, Slot.globalA, Slot.globalB,
                                                         Slot.scope1>>),
                          ![Slot.scope1].kids =
                              IF ListFor(t1, d1) = "none"
                              THEN Held(raw, <<Slot.decl1, Slot.scope2>>)
                              ELSE <<Slot.list, Slot.scope2>>,
                          ![Slot.scope2].kids = Held(raw, <<Slot.decl2, Slot.use>>)]
    IN h1

\* the declarations a slot may hold once `used` of the MaxDecls optional
\* declarations are taken
Within(options, used, allowed) ==
    IF allowed /\ used < MaxDecls THEN options ELSE {Absent}

Taken(slots) == Cardinality({i \in DOMAIN slots : slots[i] # Absent})

\* the programs visited: at most MaxDecls optional declarations (the match_kind
\* group counts as one), a second global only as an overload of the first, a
\* scope that is not a namespace holds no declaration
IsProgram(h) ==
    \E mk \in BOOLEAN, ga \in GlobalAOptions :
      \E gb \in Within(GlobalBOptions, Taken(<<ga>>) + (IF mk THEN 1 ELSE 0),
                       ga.type = "Function") :
        \E t1 \in Scope1Types, t2 \in Scope2Types :
          \E d1 \in Within(Decl1Options,
                           Taken(<<ga, gb>>) + (IF mk THEN 1 ELSE 0),
                           t1 \in Namespaces /\ t2 # "Declaration_Variable") :
            \E d2 \in Within(Decl2Options,
                             Taken(<<ga, gb, d1>>) + (IF mk THEN 1 ELSE 0),
                             t2 \in Namespaces) :
              \E use \in Uses :
                 /\ Taken(<<ga, gb, d1, d2>>) + (IF mk THEN 1 ELSE 0) <= MaxDecls
                 /\ h = Program(mk, ga, gb, t1, d1, t2, d2, use)

(* ------------------- ResolutionContext: the lookups ------------------- *)
\* ctx is the context stack at the call: the original nodes of the active
\* apply_visitor calls, outermost first, the node being visited last.
ResolutionTypes == {"Any", "Type", "TypeVariable"}

\* the IR::ID of a use: its name, its source position, the node that holds it
NameOf(h, n) == [name |-> h[n].name, pos |-> h[n].pos, node |-> n]

Diag(sev, code, msg, node, other) ==
    [sev |-> sev, code |-> code, msg |-> msg, node |-> node, other |-> other]

\* findOrigCtxt<T>(): the nearest node of a type in T above the current node
FindOrigCtxt(h, ctx, T) ==
    LET hits == {i \in 1..(Len(ctx) - 1) : h[ctx[i]].type \in T}
    IN IF hits = {} THEN Null
       ELSE ctx[CHOOSE i \in hits : \A j \in hits : j <= i]

\* the namespaces above the current node, innermost first
ScopesOf(h, ctx) ==
    LET up[i \in 0..(Len(ctx) - 1)] ==
            IF i = 0 THEN <<>>
            ELSE IF h[ctx[i]].type \in Namespaces THEN <<ctx[i]>> \o up[i - 1]
                 ELSE up[i - 1]
    IN up[Len(ctx) - 1]

\* INamespace::getDeclarations: the declarations directly inside ns, in order
DeclsOf(h, ns) == SelectSeq(h[ns].kids, LAMBDA k : h[k].type \in IDeclarations)

\* INestedNamespace::getNestedNamespaces
NestedOf(h, ns) == SelectSeq(h[ns].kids, LAMBDA k : h[k].type \in NestedLists)

\* ResolutionContext::memoizeDeclarations: what getDeclarations(ns) and
\* getDeclsByName(ns, name) of the context work on: the declarations of the
\* nested namespaces, in list order, then the declarations of ns itself
memoizeDeclarations(h, ns) ==
    LET nns == NestedOf(h, ns)
        decls[i \in 0..Len(nns)] ==
            IF i = 0 THEN <<>> ELSE decls[i - 1] \o DeclsOf(h, nns[i])
    IN decls[Len(nns)] \o DeclsOf(h, ns)

\* Util::SourceInfo::operator<=
SrcLE(dsi, nsi) == dsi <= nsi

KindFilter(h, d, type) ==
    CASE type = "Any" -> TRUE
      [] type = "Type" -> h[d].type \in Types
      [] OTHER -> h[d].type = "Type_Var"

\* (mutant) no declaration fails the position test
PositionTest_Always(h, ctx, name, type, d) == TRUE

\* the position test of lookup on one declaration
PositionTest(h, ctx, name, type, d) ==
    LET before == SrcLE(h[d].pos, name.pos)
    IN IF type = "Any" /\ FindOrigCtxt(h, ctx, Declarations) = d THEN FALSE
       ELSE before

\* locationFilter of the general namespace
LocationFilter(h, ctx, name, type, d) ==
    IF h[d].type \in {"Type_Var", "ParserState"} THEN TRUE
    ELSE PositionTest(h, ctx, name, type, d)

\* the error locationFilter reports on a declaration
SelfReference(h, ctx, name, type, d) ==
    /\ h[d].type \notin {"Type_Var", "ParserState"}
    /\ type = "Type"
    /\ FindOrigCtxt(h, ctx, TypeDeclarations) = d

NoDecls == [decls |-> <<>>, errs |-> <<>>]

LookupGeneral(h, ctx, ao, current, name, type) ==
    LET byName == SelectSeq(memoizeDeclarations(h, current),
                            LAMBDA d : h[d].name = name.name)
        typed == SelectSeq(byName, LAMBDA d : KindFilter(h, d, type))
        ordered == ~ao /\ name.pos # Pos.none
        selfs == SelectSeq(typed, LAMBDA d : SelfReference(h, ctx, name, type, d))
    IN [decls |-> IF ordered
                  THEN SelectSeq(typed, LAMBDA d : LocationFilter(h, ctx, name, type, d))
                  ELSE typed,
        errs |-> IF ordered
                 THEN [i \in DOMAIN selfs |->
                          Diag("error", "ERR_UNSUPPORTED",
                               "Self-referencing types not supported", name.node, selfs[i])]
                 ELSE <<>>]

\* ISimpleNamespace::getDeclByName
GetDeclByName(h, simple, name) ==
    LET byName == SelectSeq(DeclsOf(h, simple), LAMBDA d : h[d].name = name.name)
    IN IF byName = <<>> THEN Null ELSE byName[1]

LookupSimple(h, ctx, ao, current, name, type) ==
    LET found == GetDeclByName(h, current, name)
        typed == IF found # Null /\ KindFilter(h, found, type) THEN found ELSE Null
        decl == IF /\ typed # Null
                   /\ ~ao /\ name.pos # Pos.none
                   /\ h[current].type # "Method"
                   /\ h[typed].type \notin {"Type_Var", "ParserState"}
                   /\ ~PositionTest(h, ctx, name, type, typed)
                THEN Null ELSE typed
    IN [decls |-> IF decl = Null THEN <<>> ELSE <<decl>>, errs |-> <<>>]

\* `if (!rv.empty()) return rv;` and what follows it: the first result if it
\* holds a declaration, else the later one, after the errors of the first
FirstFound(rv, later) ==
    IF rv.decls # <<>> THEN rv
    ELSE [decls |-> later.decls, errs |-> rv.errs \o later.errs]

RECURSIVE lookup(_, _, _, _, _, _)
RECURSIVE LookupNested(_, _, _, _, _, _, _)
RECURSIVE LookupNested_Forward(_, _, _, _, _, _, _)
\* (mutant) the nested namespaces are searched in list order
LookupNested_Forward(h, ctx, ao, nns, i, name, type) ==
    IF i = 0 THEN NoDecls
    ELSE FirstFound(lookup(h, ctx, ao, nns[Len(nns) - i + 1], name, type),
                    LookupNested_Forward(h, ctx, ao, nns, i - 1, name, type))

\* the loop of lookup over the nested namespaces nns[1..i], last first
LookupNested(h, ctx, ao, nns, i, name, type) ==
    IF i = 0 THEN NoDecls
    ELSE FirstFound(lookup(h, ctx, ao, nns[i], name, type),
                    LookupNested(h, ctx, ao, nns, i - 1, name, type))

lookup(h, ctx, ao, current, name, type) ==
    FirstFound(IF h[current].type \in GeneralNamespaces
               THEN LookupGeneral(h, ctx, ao, current, name, type)
               ELSE LookupSimple(h, ctx, ao, current, name, type),
               LookupNested(h, ctx, ao, NestedOf(h, current),
                            Len(NestedOf(h, current)), name, type))

\* the results of two lookups, one after the other
BothFound(rv, later) ==
    [decls |-> rv.decls \o later.decls, errs |-> rv.errs \o later.errs]

RECURSIVE MatchKindFrom_All(_, _, _, _, _, _)
\* (mutant) the results of all the groups are collected
MatchKindFrom_All(h, ctx, ao, objs, i, name) ==
    IF i > Len(objs) THEN NoDecls
    ELSE IF h[objs[i]].type # "Declaration_MatchKind"
         THEN MatchKindFrom_All(h, ctx, ao, objs, i + 1, name)
         ELSE BothFound(lookup(h, ctx, ao, objs[i], name, "Any"),
                        MatchKindFrom_All(h, ctx, ao, objs, i + 1, name))

\* the loop of lookupMatchKind over global->objects[i..]
RECURSIVE MatchKindFrom(_, _, _, _, _, _)
MatchKindFrom(h, ctx, ao, objs, i, name) ==
    IF i > Len(objs) THEN NoDecls
    ELSE IF h[objs[i]].type # "Declaration_MatchKind"
         THEN MatchKindFrom(h, ctx, ao, objs, i + 1, name)
         ELSE FirstFound(lookup(h, ctx, ao, objs[i], name, "Any"),
                         MatchKindFrom(h, ctx, ao, objs, i + 1, name))

lookupMatchKind(h, ctx, ao, name) ==
    LET global == FindOrigCtxt(h, ctx, {"P4Program"})
    IN IF global = Null THEN NoDecls
       ELSE MatchKindFrom(h, ctx, ao, h[global].kids, 1, name)

\* the loop of resolve over the enclosing namespaces scopes[i..]
RECURSIVE ResolveFrom(_, _, _, _, _, _, _)
ResolveFrom(h, ctx, ao, scopes, i, name, type) ==
    IF i > Len(scopes)
    THEN IF type = "Any" THEN lookupMatchKind(h, ctx, ao, name) ELSE NoDecls
    ELSE FirstFound(lookup(h, ctx, ao, scopes[i], name, type),
                    ResolveFrom(h, ctx, ao, scopes, i + 1, name, type))

\* (mutant) the enclosing namespaces are tried outermost first
resolve_Outermost(h, ctx, ao, name, type) ==
    LET scopes == ScopesOf(h, ctx)
        rev == [i \in DOMAIN scopes |-> scopes[Len(scopes) + 1 - i]]
    IN ResolveFrom(h, ctx, ao, rev, 1, name, type)

resolve(h, ctx, ao, name, type) ==
    ResolveFrom(h, ctx, ao, ScopesOf(h, ctx), 1, name, type)

\* the names of the type of an instantiation: the path of a Type_Name, the base
\* type of a Type_Specialized
InstanceTypeNames(h, decl) ==
    {h[k].name : k \in {c \in Elems(h[decl].kids) :
                            h[c].type \in {"Type_Name", "Type_Specialized"}}}

\* the name a call names its callee by: the member of a Member, the path of a
\* PathExpression; mc->method is the first child of the call
CalleeNames(h, mc) ==
    IF h[mc].kids # <<>> /\ h[h[mc].kids[1]].type \in {"Member", "PathExpression"}
    THEN {h[h[mc].kids[1]].name} ELSE {}

\* the call of a MethodCallStatement is its only child
CallOf(h, node) ==
    IF h[node].type = "MethodCallStatement" THEN h[node].kids[1] ELSE node

RECURSIVE ArgumentsFrom_Through(_, _, _, _)
\* (mutant) the walk goes on past a call or an instantiation of another name
ArgumentsFrom_Through(h, ctx, i, name) ==
    IF i = 0 THEN Null
    ELSE IF \/ /\ h[ctx[i]].type \in {"MethodCallStatement", "MethodCallExpression"}
               /\ name.name \in CalleeNames(h, CallOf(h, ctx[i]))
            \/ /\ h[ctx[i]].type = "Declaration_Instance"
               /\ (h[ctx[i]].name = name.name
                     \/ name.name \in InstanceTypeNames(h, ctx[i]))
         THEN ctx[i]
         ELSE IF h[ctx[i]].type \in Expressions \cup Types \cup {"Declaration_Instance"}
              THEN ArgumentsFrom_Through(h, ctx, i - 1, name)
              ELSE Null

\* methodArguments: the call or instantiation whose arguments belong to the
\* name, walking up from context i; Null when there is none
RECURSIVE ArgumentsFrom(_, _, _, _)
ArgumentsFrom(h, ctx, i, name) ==
    IF i = 0 THEN Null
    ELSE LET node == ctx[i]
         IN IF h[node].type \in {"MethodCallStatement", "MethodCallExpression"}
            THEN IF name.name \in CalleeNames(h, CallOf(h, node)) THEN node ELSE Null
            ELSE IF h[node].type = "Declaration_Instance"
                 THEN IF \/ h[node].name = name.name
                         \/ name.name \in InstanceTypeNames(h, node)
                      THEN node ELSE Null
                 ELSE IF h[node].type \in Expressions \cup Types
                      THEN ArgumentsFrom(h, ctx, i - 1, name)
                      ELSE Null

methodArguments(h, ctx, name) == ArgumentsFrom(h, ctx, Len(ctx), name)

\* IFunctional::callMatches on the arguments of the call
CallMatches(h, d) == h[d].matches

\* (mutant) the candidates are not matched against the call
OverloadFilter_Off(h, ctx, name, decls) == decls

OverloadFilter(h, ctx, name, decls) ==
    IF Len(decls) > 1 /\ methodArguments(h, ctx, name) # Null
    THEN SelectSeq(decls, LAMBDA d : h[d].type \notin Functionals \/ CallMatches(h, d))
    ELSE decls

\* the end of resolveUnique: the declaration (Null: none) and the errors
\* reported, given the errors of the lookup and the candidates left
UniqueOf(name, errs, decls) ==
    IF decls = <<>>
    THEN [decl |-> Null,
          errs |-> errs \o <<Diag("error", "ERR_NOT_FOUND", "declaration not found",
                                  name.node, Null)>>]
    ELSE IF Len(decls) = 1
         THEN [decl |-> decls[1], errs |-> errs]
         ELSE [decl |-> Null,
               errs |-> errs \o
                        <<Diag("error", "ERR_DUPLICATE",
                               "multiple matching declarations", name.node, Null)>> \o
                        [i \in DOMAIN decls |->
                            Diag("error", "ERR_DUPLICATE", "Candidate", decls[i], Null)]]

\* resolveUnique after the lookup
UniqueAmong(h, ctx, name, found) ==
    UniqueOf(name, found.errs, OverloadFilter(h, ctx, name, found.decls))

resolveUnique(h, ctx, ao, name, type, ns) ==
    UniqueAmong(h, ctx, name,
                IF ns # Null THEN lookup(h, ctx, ao, ns, name, type)
                ELSE resolve(h, ctx, ao, name, type))

\* (mutant) an absolute path is resolved like a relative one
AbsoluteRoot_Scoped(h, ctx, path) == Null

\* ResolutionContext::resolvePath
AbsoluteRoot(h, ctx, path) ==
    IF h[path].absolute THEN FindOrigCtxt(h, ctx, {"P4Program"}) ELSE Null

ContextResolvePath(h, ctx, ao, path, isType) ==
    resolveUnique(h, ctx, ao, NameOf(h, path), IF isType THEN "Type" ELSE "Any",
                  AbsoluteRoot(h, ctx, path))

(* ------------------- ReferenceMap ------------------------------------- *)
\* the map's record of the program it was built for is the address of the root
CheckMap(map, h, root) == map.program = h[root].addr

UpdateMap(map, h, root) == [map EXCEPT !.program = h[root].addr]

SetDeclaration(map, path, decl) == [map EXCEPT !.decls = (path :> decl) @@ @]

SetThisDeclaration(map, pointer, decl) ==
    [map EXCEPT !.thisDecls = (pointer :> decl) @@ @]

UsedName(map, name) == [map EXCEPT !.used = @ \cup {name}]

(* ------------------- ResolveReferences: the hooks --------------------- *)
\* what a hook does: ret is what preorder returns, map the reference map after
\* it, errs the diagnostics it reports, decl the declaration it found
Hook(ret, map, errs, decl) == [ret |-> ret, map |-> map, errs |-> errs, decl |-> decl]

\* (mutant) the result is bound without the null test
BindAlways(h, map, path, rv) ==
    Hook(TRUE, SetDeclaration(map, path, rv.decl), rv.errs, rv.decl)

\* the two branches of ResolveReferences::resolvePath on the result rv
BindOrUse(h, map, path, rv) ==
    IF rv.decl = Null
    THEN Hook(TRUE, UsedName(map, h[path].name), rv.errs, Null)
    ELSE Hook(TRUE, SetDeclaration(map, path, rv.decl), rv.errs, rv.decl)

\* ResolveReferences::resolvePath
ResolvePath(h, ctx, ao, map, path, isType) ==
    BindOrUse(h, map, path, ContextResolvePath(h, ctx, ao, path, isType))

\* the diagnostics of checkShadowing for the declaration `node` and one
\* declaration `p` the name resolves to outside the namespace
ShadowPair(h, node, p) ==
    IF p = node THEN <<>>
    ELSE IF /\ h[p].type \in {"Method", "Type_Extern", "P4Program"}
            /\ h[node].type \in {"Method", "Function", "P4Control", "P4Parser",
                                 "Type_Package"}
         THEN <<>>
         ELSE IF h[p].type = "Attribute" /\ h[node].type = "AttribLocal" THEN <<>>
              ELSE (IF /\ h[node].type \in Declarations
                       /\ h[node].type # "Parameter"
                       /\ h[p].type = "Parameter"
                       /\ h[node].name = h[p].name
                    THEN <<Diag("error", "WARN_SHADOWING",
                                "declaration shadows a parameter", node, p)>>
                    ELSE <<>>)
                   \o <<Diag("warning", "WARN_SHADOWING", "shadows", node, p)>>

\* the loop of checkShadowing over decls[i..]; prev is prev_in_scope
RECURSIVE ShadowFrom(_, _, _, _, _, _)
ShadowFrom(h, ctx, ao, decls, i, prev) ==
    IF i > Len(decls) THEN <<>>
    ELSE LET node == decls[i]
             nm == h[node].name
         IN IF \/ h[node].type = "StructField"
               \/ h[node].type = "Parameter" /\ FindOrigCtxt(h, ctx, {"Method"}) # Null
            THEN ShadowFrom(h, ctx, ao, decls, i + 1, prev)
            ELSE LET intra == IF nm \in DOMAIN prev
                              THEN <<Diag("warning", "WARN_SHADOWING", "shadows", node,
                                          prev[nm])>>
                              ELSE <<>>
                     prev1 == IF nm \notin DOMAIN prev
                                 /\ h[node].type \notin {"Method", "Function"}
                              THEN (nm :> node) @@ prev ELSE prev
                     found == resolve(h, ctx, ao, NameOf(h, node), "Any")
                     pairs[j \in 0..Len(found.decls)] ==
                         IF j = 0 THEN <<>>
                         ELSE pairs[j - 1] \o ShadowPair(h, node, found.decls[j])
                 IN intra \o found.errs \o pairs[Len(found.decls)]
                    \o ShadowFrom(h, ctx, ao, decls, i + 1, prev1)

\* (mutant) the namespace is checked whatever checkShadow says
CheckShadowing_Always(h, ctx, ao, cs, ns) ==
    ShadowFrom(h, ctx, ao, memoizeDeclarations(h, ns), 1, <<>>)

\* ResolveReferences::checkShadowing
CheckShadowing(h, ctx, ao, cs, ns) ==
    IF ~cs THEN <<>>
    ELSE ShadowFrom(h, ctx, ao, memoizeDeclarations(h, ns), 1, <<>>)

\* ResolveReferences::preorder(const IR::This *)
PreorderThis(h, ctx, map, pointer) ==
    LET decl == FindOrigCtxt(h, ctx, {"Declaration_Instance"})
    IN IF FindOrigCtxt(h, ctx, {"Function"}) = Null \/ decl = Null
       THEN Hook(FALSE, map,
                 <<Diag("error", "ERR_INVALID",
                        "can only be used in the definition of an abstract method",
                        pointer, Null)>>, Null)
       ELSE Hook(TRUE, SetThisDeclaration(map, pointer, decl), <<>>, decl)

\* (mutant) the match type is resolved through the enclosing scopes
KeyMatchType_Lexical(h, ctx, ao, map, matchType) ==
    LET rv == resolve(h, ctx, ao, NameOf(h, matchType), "Any")
    IN IF rv.decls = <<>>
       THEN Hook(FALSE, UsedName(map, h[matchType].name),
                 <<Diag("error", "ERR_NOT_FOUND", "declaration not found", matchType,
                        Null)>>, Null)
       ELSE Hook(FALSE, SetDeclaration(map, matchType, rv.decls[1]), <<>>, rv.decls[1])

\* ResolveReferences::preorder(const IR::KeyElement *) after the two visits:
\* matchType is the path of the key's match type
KeyMatchType(h, ctx, ao, map, matchType) ==
    LET rv == lookupMatchKind(h, ctx, ao, NameOf(h, matchType))
    IN IF rv.decls = <<>>
       THEN Hook(FALSE, UsedName(map, h[matchType].name),
                 <<Diag("error", "ERR_NOT_FOUND", "declaration not found", matchType,
                        Null)>>, Null)
       ELSE IF Len(rv.decls) # 1
            THEN Hook(FALSE, map,
                      <<Diag("error", "ERR_DUPLICATE", "multiple matching declarations",
                             matchType, Null)>> \o
                      [i \in DOMAIN rv.decls |->
                          Diag("error", "ERR_DUPLICATE", "Candidate", rv.decls[i], Null)],
                      Null)
            ELSE Hook(FALSE, SetDeclaration(map, matchType, rv.decls[1]), <<>>,
                      rv.decls[1])

\* (mutant) the program is traversed whatever the map says
PreorderProgram_Always(h, map, program) == Hook(TRUE, map, <<>>, Null)

\* ResolveReferences::preorder(const IR::P4Program *)
PreorderProgram(h, map, program) == Hook(~CheckMap(map, h, program), map, <<>>, Null)

\* the preorder hook of the resolver on node n
Preorder(h, ctx, ao, cs, map, n) ==
    CASE h[n].type = "P4Program" -> PreorderProgram(h, map, n)
      [] h[n].type = "This" -> PreorderThis(h, ctx, map, n)
      [] h[n].type = "PathExpression" -> ResolvePath(h, ctx, ao, map, n, FALSE)
      [] h[n].type = "Type_Name" -> ResolvePath(h, ctx, ao, map, n, TRUE)
      [] h[n].type \in {"P4Control", "Function", "ParserState", "Type_Struct",
                        "Type_Extern"} ->
            Hook(TRUE, UsedName(map, h[n].name), CheckShadowing(h, ctx, ao, cs, n), Null)
      [] h[n].type = "BlockStatement" ->
            Hook(TRUE, map, CheckShadowing(h, ctx, ao, cs, n), Null)
      [] h[n].type = "Declaration_Instance" ->
            Hook(TRUE, UsedName(map, h[n].name), <<>>, Null)
      [] OTHER -> Hook(TRUE, map, <<>>, Null)

(* ------------------- ResolveReferences: the traversal ----------------- *)
MaxResolves == 1

\* the context stack as the lookups see it: the original nodes, outermost first
CtxOf(stk) == [i \in DOMAIN stk |-> stk[i].original]

\* the resolver may call apply_visitor: from visit_children, or from the two
\* visit calls of preorder(KeyElement)
ResCanCall ==
    /\ phase = "run"
    /\ \/ stack = <<>> /\ rootResult = Null
       \/ /\ stack # <<>>
          /\ \/ Top.pc = "kids" /\ Top.child_index < Len(heap[Top.node].kids)
             \/ Top.pc = "key" /\ Top.child_index < 2

\* (mutant) the map is never cleared
ResInitApply_Keep(map, h, root, cs) == map

\* ResolveReferences::init_apply, then Inspector::init_apply
ResInitApply(map, h, root, cs) ==
    IF ~CheckMap(map, h, root) \/ cs THEN ClearedMap(map.v1) ELSE map

ResolverInitApply ==
    /\ phase = "idle" /\ disc = "Resolver"
    /\ phase' = "run"
    /\ anyOrder' = refMap.v1
    /\ refMap' = ResInitApply(refMap, heap, Slot.program, checkShadow)
    /\ live' = TRUE
    /\ visited' = <<>>
    /\ stack' = <<>>
    /\ UNCHANGED <<input, disc, visitDagOnce, forceClone, dontForward, heap, originOf,
                   prune_flag, bugMsg, rootResult, log, lastTry, lastFin, rewrites,
                   flagOps, chainLen, ctxtDepth, flowVars, applies, diags, checkShadow,
                   driver>>

\* ResolveReferences::end_apply, when the call that returns is the outermost one
EndApply(map, h, stk) == IF stk = <<>> THEN UpdateMap(map, h, Slot.program) ELSE map

\* Inspector::apply_visitor on the next child up to the end of the preorder
\* hook; a hook that returns false finishes the visit at once.  The hook of a
\* KeyElement first visits two of its children.
ResolverEnter ==
    /\ disc = "Resolver" /\ ResCanCall
    /\ LET call == Pending
           n == call.n
           d == Len(stack) + 1
           ts == TrackerTryStart(visited, n, visitDagOnce)
           r == InspectorReturn(n, ts.status)
           ctx == Append(CtxOf(stack), n)
           hook == IF heap[n].type = "KeyElement" THEN Hook(TRUE, refMap, <<>>, Null)
                   ELSE Preorder(heap, ctx, anyOrder, checkShadow, refMap, n)
           pushed == PushContext(
                         IF stack = <<>> THEN stack
                         ELSE [stack EXCEPT ![Len(stack)].child_name = call.name], n)
           ev == Ev("preorder", n, d, [ret |-> hook.ret, ctx |-> ctx], hook.decl,
                    hook.errs)
       IN IF ts.status # "New"
          THEN /\ Leave(stack, heap, ts.visited, call, r,
                        <<Ev("revisit", n, d, 0, Null, <<>>)>>)
               /\ refMap' = EndApply(refMap, heap, stack)
               /\ UNCHANGED diags
          ELSE /\ diags' = diags \o hook.errs
               /\ IF hook.ret
                  THEN /\ stack' = [pushed EXCEPT ![Len(pushed)].pc =
                                       IF heap[n].type = "KeyElement" THEN "key"
                                       ELSE "kids",
                                                  ![Len(pushed)].pre = TRUE]
                       /\ visited' = ts.visited
                       /\ log' = Append(log, ev)
                       /\ refMap' = hook.map
                       /\ UNCHANGED <<heap, live, phase, rootResult>>
                  ELSE /\ Leave(stack, heap, TrackerFinish(ts.visited, n), call, r,
                                <<ev, Ev("ret", n, d, call.slot, r, <<>>)>>)
                       /\ refMap' = EndApply(hook.map, heap, stack)
    /\ UNCHANGED <<input, disc, visitDagOnce, forceClone, dontForward, originOf, prune_flag,
                   bugMsg, lastTry, lastFin, rewrites, flagOps, chainLen, ctxtDepth,
                   flowVars, applies, anyOrder, checkShadow,
                   driver>>

\* the rest of preorder(KeyElement): the match type is looked up and the hook
\* returns false, so the third child is not visited and no postorder runs
ResolverKeyElement ==
    /\ disc = "Resolver" /\ phase = "run" /\ stack # <<>>
    /\ Top.pc = "key" /\ Top.child_index >= 2
    /\ LET n == Top.original
           d == Len(stack)
           below == SubSeq(stack, 1, Len(stack) - 1)
           call == [n |-> n, name |-> SlotOf(stack), slot |-> SlotOf(stack)]
           hook == KeyMatchType(heap, CtxOf(stack), anyOrder, refMap, heap[n].kids[3])
       IN /\ Leave(below, heap, TrackerFinish(visited, n), call, n,
                   <<Ev("key", n, d, [ret |-> FALSE, ctx |-> CtxOf(stack)], hook.decl,
                        hook.errs),
                     Ev("ret", n, d, call.slot, n, <<>>)>>)
          /\ refMap' = EndApply(hook.map, heap, below)
          /\ diags' = diags \o hook.errs
    /\ UNCHANGED <<input, disc, visitDagOnce, forceClone, dontForward, originOf, prune_flag,
                   bugMsg, lastTry, lastFin, rewrites, flagOps, chainLen, ctxtDepth,
                   flowVars, applies, anyOrder, checkShadow,
                   driver>>

\* after the last child: postorder (which changes nothing), finish, the return,
\* and end_apply when the program itself returns
ResolverLeave ==
    /\ disc = "Resolver" /\ phase = "run" /\ stack # <<>> /\ Top.pc = "kids"
    /\ Top.child_index >= Len(heap[Top.node].kids)
    /\ LET n == Top.original
           d == Len(stack)
           below == SubSeq(stack, 1, Len(stack) - 1)
           call == [n |-> n, name |-> SlotOf(stack), slot |-> SlotOf(stack)]
       IN /\ Leave(below, heap, TrackerFinish(visited, n), call, n,
                   <<Ev("ret", n, d, call.slot, n, <<>>)>>)
          /\ refMap' = EndApply(refMap, heap, below)
    /\ UNCHANGED <<input, disc, visitDagOnce, forceClone, dontForward, originOf, prune_flag,
                   bugMsg, lastTry, lastFin, rewrites, flagOps, chainLen, ctxtDepth,
                   flowVars, applies, anyOrder, checkShadow, diags,
                   driver>>

\* a later pass applies a resolver to the program again, with the same reference
\* map: the same root or a new root object, a resolver that checks shadowing or not
ResolverReapply ==
    /\ disc = "Resolver" /\ phase = "done" /\ applies < MaxResolves
    /\ applies' = applies + 1
    /\ phase' = "idle"
    /\ \E changed \in BOOLEAN :
          /\ heap' = IF changed THEN [heap EXCEPT ![Slot.program].addr = @ + 1]
                     ELSE heap
          /\ log' = Append(log, Ev("apply", Slot.program, 0,
                                   [changed |-> changed, map |-> refMap,
                                    reported |-> Len(diags)], Null, <<>>))
    /\ checkShadow' \in BOOLEAN
    /\ rootResult' = Null
    /\ UNCHANGED <<input, disc, visitDagOnce, forceClone, dontForward, originOf, live,
                   visited, stack, prune_flag, bugMsg, lastTry, lastFin, rewrites,
                   flagOps, chainLen, ctxtDepth, flowVars, refMap, diags, anyOrder,
                   driver>>

\* the resolver and its reference map before the first apply, on the program
\* in the heap
ResolverIdle ==
    /\ disc = "Resolver"
    /\ visitDagOnce = FALSE
    /\ forceClone = FALSE /\ dontForward = FALSE
    /\ input = heap
    /\ originOf = [n \in DOMAIN heap |-> n]
    /\ live = FALSE /\ visited = <<>> /\ stack = <<>>
    /\ prune_flag = FALSE
    /\ phase = "idle"
    /\ bugMsg = ""
    /\ rootResult = Null
    /\ log = <<>>
    /\ lastTry = NoCall /\ lastFin = NoCall
    /\ rewrites = 0 /\ flagOps = 0
    /\ chainLen = 0 /\ ctxtDepth = 0
    /\ BackwardsCompatibleBroken = FALSE
    /\ flow_join_points = <<>> /\ flowOf = <<>> /\ splitNodes = {} /\ filtered = {}
    /\ applies = 0
    /\ \E isv1 \in BOOLEAN : refMap = ClearedMap(isv1)
    /\ diags = <<>>
    /\ anyOrder = FALSE
    /\ checkShadow \in BOOLEAN
    /\ NoDriver

ResolverInit == IsProgram(heap) /\ ResolverIdle

ResolverNext ==
    \/ ResolverInitApply
    \/ ResolverEnter
    \/ ResolverKeyElement
    \/ ResolverLeave

ResolveSpec == ResolverInit /\ [][ResolverNext]_vars

\* the resolver applied again: programs with a control and a block
RepeatInit ==
    /\ ResolverInit
    /\ heap[Slot.scope1].type = "P4Control"
    /\ heap[Slot.scope2].type = "BlockStatement"

RepeatNext ==
    \/ ResolverNext
    \/ ResolverReapply

RepeatSpec == RepeatInit /\ [][RepeatNext]_vars

(* ------------------- more programs ------------------------------------ *)
\* Programs that vary what the first family keeps fixed: the frames between a
\* name and the calls around it, the nested namespaces of a scope, the
\* match_kind groups of the program, two declarations in one namespace.

\* a node with its children
WithKids(node, kids) == [node EXCEPT !.kids = kids]

\* the nodes `frames`, each the only child of the one before it, under a program
Linear(frames) ==
    <<WithKids([MkNode("P4Program", "", Pos.none, <<>>) EXCEPT !.addr = 1], <<2>>)>> \o
    [i \in DOMAIN frames |->
        IF i = Len(frames) THEN frames[i] ELSE WithKids(frames[i], <<i + 2>>)]

\* what may stand around a name: a call `e.x()` or `e.y()` of a member of the
\* expression e below, a call `e()`, an instantiation named x or y, an
\* argument, a specialized type
CallUnits ==
    {<<MkNode("MethodCallExpression", "", Pos.before, <<>>),
       MkNode("Member", n, Pos.before, <<>>)>> : n \in {"x", "y"}}
    \cup {<<MkNode("MethodCallExpression", "", Pos.before, <<>>)>>}
    \cup {<<MkNode("Declaration_Instance", n, Pos.before, <<>>)>> : n \in {"x", "y"}}
    \cup {<<MkNode("Argument", "", Pos.before, <<>>)>>,
          <<MkNode("Type_Specialized", "y", Pos.before, <<>>)>>}

MaxUnits == 3

UnitChains ==
    UNION {[1..k -> CallUnits] : k \in 1..MaxUnits}

RECURSIVE Flatten(_, _)
Flatten(units, i) ==
    IF i > Len(units) THEN <<>> ELSE units[i] \o Flatten(units, i + 1)

NameUses ==
    {MkNode("PathExpression", "x", Pos.use, <<>>),
     MkNode("Type_Name", "x", Pos.use, <<>>)}

CallPrograms ==
    {Linear(Flatten(units, 1) \o <<use>>) : units \in UnitChains, use \in NameUses}

\* a scope with its type parameters, its parameters, a declaration of its own
\* and a body that uses the name x.  A control lists its type parameters before
\* its parameters; a function and an extern have type parameters only.
NestScopes == {"P4Control", "Function", "Type_Extern"}

NestProgram(t, tv, par, own, use) ==
    <<WithKids([MkNode("P4Program", "", Pos.none, <<>>) EXCEPT !.addr = 1], <<2>>),
      WithKids(MkNode(t, "s", Pos.before, <<>>),
               <<3>> \o (IF t = "P4Control" THEN <<5>> ELSE <<>>)
                     \o (IF own = Absent THEN <<>> ELSE <<7>>) \o <<8>>),
      WithKids(MkNode("TypeParameters", "", Pos.before, <<>>),
               IF tv = Absent THEN <<>> ELSE <<4>>),
      tv,
      WithKids(MkNode("ParameterList", "", Pos.before, <<>>),
               IF par = Absent THEN <<>> ELSE <<6>>),
      par,
      own,
      WithKids(MkNode(IF t = "Type_Extern" THEN "Method" ELSE "BlockStatement",
                      IF t = "Type_Extern" THEN "m" ELSE "", Pos.before, <<>>), <<9>>),
      use>>

NestPrograms ==
    {NestProgram(t, tv, par, own, use) :
        t \in NestScopes,
        tv \in {Absent, MkNode("Type_Var", "x", Pos.before, <<>>)},
        par \in {Absent} \cup {MkNode("Parameter", "x", p, <<>>) :
                                  p \in {Pos.before, Pos.after}},
        own \in {Absent} \cup {MkNode("Declaration_Variable", "x", p, <<>>) :
                                  p \in {Pos.before, Pos.after}},
        use \in NameUses \cup {MkNode("PathExpression", "x", Pos.none, <<>>)}}

\* a program with up to two match_kind groups of one member each, and a table
\* key (or a plain name) in a control; `top` is the type of the root the
\* resolver is applied to, which holds the groups only when it is a program
KeyProgram(top, m1, m2, asKey) ==
    <<WithKids([MkNode(top, "", Pos.none, <<>>) EXCEPT !.addr = 1],
               IF top = "P4Program"
               THEN (IF m1 = "" THEN <<>> ELSE <<2>>) \o
                    (IF m2 = "" THEN <<>> ELSE <<4>>) \o <<6>>
               ELSE <<6>>),
      WithKids(MkNode("Declaration_MatchKind", "", Pos.before, <<>>), <<3>>),
      MkNode("Declaration_ID", m1, Pos.before, <<>>),
      WithKids(MkNode("Declaration_MatchKind", "", Pos.before, <<>>), <<5>>),
      MkNode("Declaration_ID", m2, Pos.before, <<>>),
      WithKids(MkNode("P4Control", "s", Pos.before, <<>>), <<7>>),
      IF asKey THEN MkNode("KeyElement", "", Pos.use, <<8, 9, 10>>)
      ELSE MkNode("PathExpression", "x", Pos.use, <<>>),
      MkNode("Annotations", "", Pos.none, <<>>),
      MkNode("PathExpression", "y", Pos.use, <<>>),
      MkNode("PathExpression", "x", Pos.use, <<>>)>>

KeyPrograms ==
    {KeyProgram(top, m1, m2, asKey) :
        top \in {"P4Program", "P4Control"}, m1 \in {"", "x", "y"},
        m2 \in {"", "x", "y"}, asKey \in BOOLEAN}

\* a control that may declare x, and inside it a namespace with up to two
\* declarations named x and a use of x
InnerScopes == {"BlockStatement", "Function", "P4Control", "Type_Struct", "Type_Extern"}

\* what each kind of namespace declares: a block (a body, or the initializer of
\* an instantiation) variables, instances and functions, a control variables and
\* instances, a function parameters, a struct fields, an extern methods
InnerDeclTypes(t) ==
    CASE t = "BlockStatement" -> {"Declaration_Variable", "Declaration_Instance", "Function"}
      [] t = "P4Control" -> {"Declaration_Variable", "Declaration_Instance"}
      [] t = "Function" -> {"Parameter"}
      [] t = "Type_Struct" -> {"StructField"}
      [] OTHER -> {"Method"}

InnerDecls(t) ==
    {Absent} \cup {MkNode(dt, "x", Pos.before, <<>>) : dt \in InnerDeclTypes(t)}

ShadowProgram(d0, t, dA, dB) ==
    <<WithKids([MkNode("P4Program", "", Pos.none, <<>>) EXCEPT !.addr = 1], <<2>>),
      WithKids(MkNode("P4Control", "s", Pos.before, <<>>),
               (IF d0 = Absent THEN <<>> ELSE <<3>>) \o <<4>>),
      d0,
      WithKids(MkNode(t, IF t = "BlockStatement" THEN "" ELSE "t", Pos.before, <<>>),
               (IF dA = Absent THEN <<>> ELSE <<5>>) \o
               (IF dB = Absent THEN <<>> ELSE <<6>>) \o <<7>>),
      dA,
      dB,
      MkNode("PathExpression", "x", Pos.use, <<>>)>>

ShadowPrograms ==
    UNION {{ShadowProgram(d0, t, dA, dB) :
               d0 \in {Absent} \cup {MkNode("Declaration_Variable", "x", p, <<>>) :
                                        p \in {Pos.before, Pos.after}},
               dA \in InnerDecls(t), dB \in InnerDecls(t)} : t \in InnerScopes}

ScopePrograms == CallPrograms \cup NestPrograms \cup KeyPrograms \cup ShadowPrograms

ScopeInit == heap \in ScopePrograms /\ ResolverIdle

ScopeSpec == ScopeInit /\ [][ResolverNext]_vars

(* ---------------------------------------------------------------------- *)
\* C22: in non-v1 mode, for a name with a valid source position, lookup returns
\* only declarations located at or before the name, except that Type_Var and
\* ParserState declarations are never dropped for their position and a Method
\* namespace is not filtered; in v1 mode no declaration is dropped for its
\* position.  Checked for every name the resolver stands on, every namespace of
\* the program and every resolution type.

NamespacesIn(h) == {n \in DOMAIN h : h[n].type \in Namespaces}

\* the resolver stands on a named node
OnName ==
    /\ disc = "Resolver" /\ phase = "run" /\ stack # <<>>
    /\ heap[Top.original].name # ""

\* the declarations directly in ns that the name and the type select
Candidates(ns, name, type) ==
    {d \in Elems(DeclsOf(heap, ns)) :
        heap[d].name = name.name /\ KindFilter(heap, d, type)}

PositionExempt(ns, d) ==
    heap[d].type \in {"Type_Var", "ParserState"} \/ heap[ns].type = "Method"

C22_PositionFilter ==
    OnName =>
      LET name == NameOf(heap, Top.original)
          ctx == CtxOf(stack)
      IN \A ns \in NamespacesIn(heap), type \in ResolutionTypes :
           LET rv == Elems(lookup(heap, ctx, anyOrder, ns, name, type).decls)
               own == Candidates(ns, name, type)
           IN /\ (~anyOrder /\ name.pos # Pos.none) =>
                    \A d \in rv :
                       \/ heap[d].pos <= name.pos
                       \/ heap[d].type \in {"Type_Var", "ParserState"}
                       \/ heap[ns].type = "Method" /\ d \in own
              /\ \A d \in own : PositionExempt(ns, d) => d \in rv
              /\ anyOrder => own \subseteq rv

\* a use in ordered mode stands under a namespace whose only declaration of the
\* name comes later and is dropped
C22_Witness ==
    /\ OnName /\ Top.original = Slot.use /\ ~anyOrder
    /\ heap[Slot.use].pos = Pos.use
    /\ heap[Slot.decl2].type = "Declaration_Variable"
    /\ heap[Slot.decl2].pos = Pos.after
    /\ lookup(heap, CtxOf(stack), anyOrder, Slot.scope2, NameOf(heap, Slot.use),
              "Any").decls = <<>>

(* ---------------------------------------------------------------------- *)
\* C23: resolve(name, kind) returns the lookup result of the innermost namespace
\* above the current node whose lookup is not empty, whatever the namespaces
\* further out hold; when no namespace matches it returns lookupMatchKind(name)
\* for kind Any and nothing for Type and TypeVariable.
\* the frames below the current node that are namespaces with a non-empty lookup
MatchingFrames(name, type) ==
    {i \in 1..(Len(stack) - 1) :
        /\ heap[stack[i].original].type \in Namespaces
        /\ lookup(heap, CtxOf(stack), anyOrder, stack[i].original, name, type).decls
              # <<>>}

C23_InnermostMatch ==
    OnName =>
      LET name == NameOf(heap, Top.original)
          ctx == CtxOf(stack)
      IN \A type \in ResolutionTypes :
           LET rv == resolve(heap, ctx, anyOrder, name, type).decls
               hits == MatchingFrames(name, type)
           IN IF hits # {}
              THEN rv = lookup(heap, ctx, anyOrder, stack[Highest(hits)].original,
                               name, type).decls
              ELSE IF type = "Any"
                   THEN rv = lookupMatchKind(heap, ctx, anyOrder, name).decls
                   ELSE rv = <<>>

\* the name is declared in the block around the use and in the scope around
\* the block, both before the use: the use resolves to the inner declaration
C23_Witness ==
    /\ OnName /\ Top.original = Slot.use /\ heap[Slot.use].type = "PathExpression"
    /\ Cardinality(MatchingFrames(NameOf(heap, Slot.use), "Any")) = 2
    /\ resolve(heap, CtxOf(stack), anyOrder, NameOf(heap, Slot.use), "Any").decls
          = <<Slot.decl2>>
    /\ Slot.use \in DOMAIN refMap.decls /\ refMap.decls[Slot.use] = Slot.decl2

(* ---------------------------------------------------------------------- *)
\* C24: resolveUnique returns a declaration only when exactly one candidate is
\* left after the overload check.  For a call of a name that two functions of
\* the program declare: if the arguments match exactly one, that one is returned
\* and bound with no diagnostic; if they match both, "multiple matching
\* declarations" is reported, then one Candidate error per candidate, and nothing
\* is returned; if they match neither, "declaration not found" is reported and
\* nothing is returned.
\* the visits of the resolver's hook to node n
HookEvents(n) ==
    {i \in DOMAIN log : log[i].t \in {"preorder", "key"} /\ log[i].n = n}

\* the program calls a name that two functions declare, and nothing else does
TwoOverloads ==
    /\ disc = "Resolver"
    /\ heap[Slot.use].type = "MethodCallExpression"
    /\ heap[Slot.globalA].type = "Function" /\ heap[Slot.globalB].type = "Function"
    /\ {n \in DOMAIN heap : heap[n].type \in IDeclarations /\ heap[n].name = "x"}
          = {Slot.globalA, Slot.globalB}

MatchingOverloads == {d \in {Slot.globalA, Slot.globalB} : heap[d].matches}

C24_OverloadChoice ==
    /\ disc = "Resolver" =>
          \A i \in DOMAIN log :
             (log[i].t = "preorder" /\ log[i].r # Null) =>
                \A j \in DOMAIN log[i].k :
                   log[i].k[j].code \notin {"ERR_NOT_FOUND", "ERR_DUPLICATE"}
    /\ TwoOverloads =>
          \A i \in HookEvents(Slot.sub2) :
             LET m == MatchingOverloads
                 codes == [j \in DOMAIN log[i].k |-> log[i].k[j].msg]
             IN CASE Cardinality(m) = 1 ->
                       /\ log[i].r \in m /\ log[i].k = <<>>
                       /\ Slot.sub2 \in DOMAIN refMap.decls
                       /\ refMap.decls[Slot.sub2] = log[i].r
                  [] Cardinality(m) = 2 ->
                       /\ log[i].r = Null
                       /\ codes = <<"multiple matching declarations", "Candidate",
                                    "Candidate">>
                       /\ {log[i].k[2].node, log[i].k[3].node} = m
                       /\ Slot.sub2 \notin DOMAIN refMap.decls
                  [] OTHER ->
                       /\ log[i].r = Null
                       /\ codes = <<"declaration not found">>
                       /\ Slot.sub2 \notin DOMAIN refMap.decls

\* a call whose arguments match one of the two functions has been bound to it
C24_Witness ==
    /\ TwoOverloads /\ phase = "done"
    /\ MatchingOverloads = {Slot.globalB}
    /\ Slot.sub2 \in DOMAIN refMap.decls /\ refMap.decls[Slot.sub2] = Slot.globalB
    /\ diags = <<>>

(* ---------------------------------------------------------------------- *)
\* C25: an absolute path is looked up in the P4Program namespace only: a
\* declaration of the name in an enclosing inner scope is never returned and a
\* match kind is never returned; the lookup is of kind Type for a Type_Name and
\* Any for a PathExpression.  A path that is not absolute resolves through the
\* enclosing scopes, innermost first.
\* the declarations of the program namespace an absolute use u can resolve to
RootCandidates(u) ==
    {d \in Elems(DeclsOf(heap, Slot.program)) :
        /\ heap[d].name = heap[u].name
        /\ heap[u].type = "Type_Name" => heap[d].type \in Types
        /\ anyOrder \/ heap[d].pos <= heap[u].pos}

PathUse ==
    /\ disc = "Resolver"
    /\ heap[Slot.use].type \in {"PathExpression", "Type_Name"}

C25_AbsoluteInRoot ==
    PathUse =>
      \A i \in HookEvents(Slot.use) :
         IF heap[Slot.use].absolute
         THEN LET c == RootCandidates(Slot.use)
              IN /\ log[i].r # Null => log[i].r \in c
                 /\ Cardinality(c) = 1 => log[i].r \in c
                 /\ c = {} =>
                       /\ log[i].r = Null
                       /\ \E j \in DOMAIN log[i].k :
                             log[i].k[j].msg = "declaration not found"
         ELSE LET kind == IF heap[Slot.use].type = "Type_Name" THEN "Type" ELSE "Any"
                  hits == MatchingFrames(NameOf(heap, Slot.use), kind)
              IN (stack # <<>> /\ Top.original = Slot.use /\ hits # {}) =>
                    LET inner == Elems(lookup(heap, CtxOf(stack), anyOrder,
                                              stack[Highest(hits)].original,
                                              NameOf(heap, Slot.use), kind).decls)
                    IN /\ log[i].r # Null => log[i].r \in inner
                       /\ Cardinality(inner) = 1 => log[i].r \in inner

\* an absolute path expression under a block that declares the name before it
\* is bound to the global declaration of the name
C25_Witness ==
    /\ PathUse /\ phase = "done"
    /\ heap[Slot.use].type = "PathExpression" /\ heap[Slot.use].absolute
    /\ heap[Slot.decl2].type = "Declaration_Variable"
    /\ heap[Slot.decl2].pos = Pos.before
    /\ heap[Slot.globalA].type = "Type_Struct"
    /\ refMap.decls[Slot.use] = Slot.globalA

(* ---------------------------------------------------------------------- *)
\* C26: `this` is bound to a Declaration_Instance only inside a Function that is
\* itself inside that Declaration_Instance; in every other context (no enclosing
\* Function, no enclosing Declaration_Instance, or a Declaration_Instance inside
\* the Function rather than around it) no binding is made and the error "can
\* only be used in the definition of an abstract method" is reported.
ThisUse == disc = "Resolver" /\ heap[Slot.use].type = "This"

\* the instance around the innermost function around the last node of ctx
\* (Null: there is no function, or no instance around it)
InstanceAroundFunction(ctx) ==
    LET fns == {j \in 1..(Len(ctx) - 1) : heap[ctx[j]].type = "Function"}
        f == Highest(fns)
        insts == {i \in 1..(f - 1) : heap[ctx[i]].type = "Declaration_Instance"}
    IN IF fns = {} \/ insts = {} THEN Null ELSE ctx[Highest(insts)]

\* a Declaration_Instance lies between the function and `this`
InstanceInsideFunction(ctx) ==
    \E j \in 1..(Len(ctx) - 1), i \in 1..(Len(ctx) - 1) :
       /\ j < i
       /\ heap[ctx[j]].type = "Function"
       /\ heap[ctx[i]].type = "Declaration_Instance"

C26_ThisBinding ==
    ThisUse =>
      \A i \in HookEvents(Slot.use) :
         LET ctx == log[i].a.ctx
             inst == InstanceAroundFunction(ctx)
         IN IF inst # Null /\ ~InstanceInsideFunction(ctx)
            THEN /\ log[i].r = inst /\ log[i].k = <<>>
                 /\ Slot.use \in DOMAIN refMap.thisDecls
                 /\ refMap.thisDecls[Slot.use] = inst
            ELSE /\ log[i].r = Null
                 /\ Slot.use \notin DOMAIN refMap.thisDecls
                 /\ \E j \in DOMAIN log[i].k :
                       log[i].k[j].msg =
                          "can only be used in the definition of an abstract method"

(* ---------------------------------------------------------------------- *)
\* C27: for every PathExpression and Type_Name the resolver visits, either the
\* resolution succeeds and the map binds the path to the declaration found, or
\* it fails, an error is reported, the name is among the used names and the
\* path has no binding.  The traversal goes on in both cases: when the run is
\* over every path under the program has been visited and is mapped or has an
\* error.
PathNodes ==
    {n \in DOMAIN heap : heap[n].type \in {"PathExpression", "Type_Name"}}

\* the match type of a key is resolved by the hook of the key
MatchTypePaths ==
    {heap[k].kids[3] : k \in {n \in DOMAIN heap : heap[n].type = "KeyElement"}}

ErrorsOn(n) == {j \in DOMAIN diags : diags[j].sev = "error" /\ diags[j].node = n}

C27_BoundOrReported ==
    disc = "Resolver" =>
      /\ \A n \in PathNodes \ MatchTypePaths : \A i \in HookEvents(n) :
            IF log[i].r # Null
            THEN /\ n \in DOMAIN refMap.decls /\ refMap.decls[n] = log[i].r
                 /\ \A j \in DOMAIN log[i].k : log[i].k[j].code = "ERR_UNSUPPORTED"
            ELSE /\ n \notin DOMAIN refMap.decls
                 /\ \E j \in DOMAIN log[i].k : log[i].k[j].sev = "error"
                 /\ ErrorsOn(n) # {}
                 /\ heap[n].name \in refMap.used
      /\ phase = "done" =>
            /\ \A n \in PathNodes \ MatchTypePaths : HookEvents(n) # {}
            /\ \A n \in PathNodes : n \in DOMAIN refMap.decls \/ ErrorsOn(n) # {}

\* a key whose expression does not resolve: the error is reported, the name is
\* recorded, and the resolver has gone on to bind the match type
C27_Witness ==
    /\ disc = "Resolver" /\ phase = "done"
    /\ heap[Slot.use].type = "KeyElement"
    /\ Slot.sub2 \notin DOMAIN refMap.decls
    /\ ErrorsOn(Slot.sub2) # {}
    /\ "x" \in refMap.used
    /\ Slot.sub3 \in DOMAIN refMap.decls

(* ---------------------------------------------------------------------- *)
\* C28: the match type of a KeyElement is resolved through lookupMatchKind
\* only, never to a declaration of the name in an enclosing scope.  The resolver
\* visits the key's annotations and expression and not its match type; it binds
\* the match type when exactly one match kind is found, and otherwise reports
\* "declaration not found" or "multiple matching declarations" and sets no
\* binding.
KeyUse == disc = "Resolver" /\ heap[Slot.use].type = "KeyElement"

\* the members of the match_kind groups of the program with the name of n
MatchKindsNamed(n) ==
    {m \in DOMAIN heap :
        /\ heap[m].name = heap[n].name
        /\ \E g \in Elems(heap[Slot.program].kids) :
              heap[g].type = "Declaration_MatchKind" /\ m \in Elems(DeclsOf(heap, g))}

C28_MatchKindOnly ==
    KeyUse =>
      /\ HookEvents(Slot.sub3) = {}
      /\ Slot.sub3 \in DOMAIN refMap.decls =>
            refMap.decls[Slot.sub3] \in MatchKindsNamed(Slot.sub3)
      /\ \A i \in DOMAIN log :
            (log[i].t = "key" /\ log[i].n = Slot.use) =>
               /\ \E a \in 1..(i - 1), b \in 1..(i - 1) :
                     /\ a < b
                     /\ log[a].t = "preorder" /\ log[a].n = Slot.sub1
                     /\ log[b].t = "preorder" /\ log[b].n = Slot.sub2
               /\ log[i + 1].t = "ret" /\ log[i + 1].n = Slot.use
               /\ IF Cardinality(MatchKindsNamed(Slot.sub3)) = 1
                  THEN /\ log[i].k = <<>>
                       /\ Slot.sub3 \in DOMAIN refMap.decls
                       /\ refMap.decls[Slot.sub3] \in MatchKindsNamed(Slot.sub3)
                  ELSE /\ Slot.sub3 \notin DOMAIN refMap.decls
                       /\ log[i].k # <<>>
                       /\ log[i].k[1].msg \in {"declaration not found",
                                               "multiple matching declarations"}
                       /\ log[i].k[1].node = Slot.sub3

\* the key's expression is bound to the variable of the block, the match type
\* of the same name to the match kind
C28_Witness ==
    /\ KeyUse /\ phase = "done"
    /\ heap[Slot.decl2].type = "Declaration_Variable"
    /\ Slot.sub2 \in DOMAIN refMap.decls /\ refMap.decls[Slot.sub2] = Slot.decl2
    /\ Slot.sub3 \in DOMAIN refMap.decls /\ refMap.decls[Slot.sub3] = Slot.member

(* ---------------------------------------------------------------------- *)
\* C29: the resolver skips the traversal of the program (no path is resolved
\* again, the reference map stays as it was) if and only if the map is up to
\* date for this root and shadow checking is off; when the root changed or
\* shadow checking is on, the map is cleared at the start of the apply and every
\* path under the program is resolved again.
\* the position in the log where the current apply begins (0: the first apply)
ApplyStart ==
    LET marks == {i \in DOMAIN log : log[i].t = "apply"}
    IN IF marks = {} THEN 0 ELSE Highest(marks)

\* the reference map the current apply was given
MapGiven == IF ApplyStart = 0 THEN ClearedMap(refMap.v1) ELSE log[ApplyStart].a.map

UpToDate == MapGiven.program = heap[Slot.program].addr

\* the hook's visits to n in the current apply
VisitsNow(n) == {i \in HookEvents(n) : i > ApplyStart}

C29_SkipWhenUpToDate ==
    (disc = "Resolver" /\ phase \in {"run", "done"}) =>
      IF UpToDate /\ ~checkShadow
      THEN /\ refMap = MapGiven
           /\ \A n \in DOMAIN heap \ {Slot.program} : VisitsNow(n) = {}
           /\ \A i \in VisitsNow(Slot.program) : ~log[i].a.ret
      ELSE /\ (stack = <<>> /\ rootResult = Null) => refMap = ClearedMap(refMap.v1)
           /\ \A i \in VisitsNow(Slot.program) : log[i].a.ret
           /\ phase = "done" =>
                 /\ refMap.program = heap[Slot.program].addr
                 /\ \A n \in PathNodes \ MatchTypePaths : VisitsNow(n) # {}
                 /\ \A n \in DOMAIN refMap.decls :
                       \E i \in DOMAIN log :
                          /\ i > ApplyStart
                          /\ log[i].r = refMap.decls[n]
                          /\ log[i].n = n \/ (log[i].t = "key" /\ n \in MatchTypePaths)

\* a second apply to the same root without shadow checking has returned: the
\* program's hook returned false and the bindings of the first apply are kept
C29_Witness ==
    /\ disc = "Resolver" /\ phase = "done" /\ applies = 1
    /\ UpToDate /\ ~checkShadow
    /\ VisitsNow(Slot.program) # {}
    /\ Slot.use \in DOMAIN refMap.decls

(* ---------------------------------------------------------------------- *)
\* C31: with shadow checking on, a declaration in a nested block whose name
\* equals a declaration visible in an enclosing scope gets a WARN_SHADOWING
\* diagnostic that names the inner and the outer node; with shadow checking off
\* no WARN_SHADOWING diagnostic is reported at all.
\* the declarations of ns and of its nested namespaces that a name standing at
\* declaration d sees: in v1 mode all that carry the name, else those located
\* at or before d
SeenIn(ns, d) ==
    {o \in Elems(DeclsOf(heap, ns)) \cup
           UNION {Elems(DeclsOf(heap, l)) : l \in Elems(NestedOf(heap, ns))} :
        /\ heap[o].name = heap[d].name
        /\ \/ anyOrder
           \/ heap[o].pos <= heap[d].pos
           \/ heap[o].type \in {"Type_Var", "ParserState"}}

\* the declarations of the innermost namespace around the last node of ctx
\* in which the name of d is seen
VisibleOuter(ctx, d) ==
    LET hits == {i \in 1..(Len(ctx) - 1) :
                    heap[ctx[i]].type \in Namespaces /\ SeenIn(ctx[i], d) # {}}
    IN IF hits = {} THEN {} ELSE SeenIn(ctx[Highest(hits)], d)

ShadowDiags(errs, inner, outer) ==
    {j \in DOMAIN errs :
        /\ errs[j].code = "WARN_SHADOWING"
        /\ errs[j].node = inner /\ errs[j].other = outer}

BlockEvents ==
    {i \in DOMAIN log : log[i].t = "preorder" /\ heap[log[i].n].type = "BlockStatement"}

MaxErrors == 3

Tools == {"p4test", "p4c-ebpf"}

\* the options main() reads
DriverOptionSets ==
    [loadIRFromJson : BOOLEAN, parseOnly : BOOLEAN, validateOnly : BOOLEAN,
     isv1 : BOOLEAN, arch : BOOLEAN, debugJson : BOOLEAN]

\* what a call may do: report errors, throw a std::exception
Outcomes == [errors : 0..1, throws : BOOLEAN]

\* ::P4::error: the count goes up
Report(d, n) == [d EXCEPT !.errorCount = @ + n]

\* (mutant) the handler returns like the end of main
CaughtExit_Count(count) == IF count > 0 THEN 1 ELSE 0

\* catch (const std::exception &bug) { std::cerr << bug.what(); return 1; }
CaughtExit(count) == 1

\* `return ::P4::errorCount() > 0;`
ExitStatus(count) == IF count > 0 THEN 1 ELSE 0

\* the calls main() makes inside a try block: p4test the front end and the mid
\* end, p4c-ebpf all of compile()
InTry(tool, stage) ==
    IF tool = "p4test" THEN stage \in {"frontend", "midend"}
    ELSE stage # "options"

\* an exception leaves the call: the handler of main returns, or there is no
\* handler and std::terminate ends the process (SIGABRT, status 134)
Thrown(d) ==
    [d EXCEPT !.pc = "done", !.threw = TRUE,
              !.exit = IF InTry(d.tool, d.pc) THEN CaughtExit(d.errorCount)
                       ELSE 134]

\* the call of the stage the driver stands at has outcome `out`; `next` is the
\* stage main() goes to when the call returns with the error count at zero,
\* `failed` the one when it is above zero
After(d, out, next, failed) ==
    IF out.throws THEN Thrown(d)
    ELSE LET d1 == Report(d, out.errors)
         IN [d1 EXCEPT !.pc = IF d1.errorCount > 0 THEN failed ELSE next]

\* the driver stands at a stage; its steps leave the visitors alone
DriverAt(stage) ==
    /\ driver.tool \in Tools /\ driver.pc = stage
    /\ UNCHANGED <<disc, visitDagOnce, forceClone, dontForward, heap, input, originOf,
                   live, visited, stack, prune_flag, phase, bugMsg, rootResult, log,
                   lastTry, lastFin, rewrites, flagOps, chainLen, ctxtDepth, flowVars,
                   applies, resVars>>

\* options.process(argc, argv) and the test that follows it
DriverOptions ==
    /\ DriverAt("options")
    /\ \E n \in 0..1 :
          driver' = IF n > 0
                    THEN [Report(driver, n) EXCEPT !.pc = "done", !.exit = 1]
                    ELSE [driver EXCEPT !.pc = "load"]

\* the program is read from JSON or parsed
DriverLoad ==
    /\ DriverAt("load")
    /\ IF driver.tool = "p4test"
       THEN IF driver.opts.loadIRFromJson
            THEN \E good \in BOOLEAN :
                    driver' = [Report(driver, IF good THEN 0 ELSE 1)
                                  EXCEPT !.program = good, !.pc = "serialize"]
            ELSE \E out \in Outcomes, parsed \in BOOLEAN :
                    /\ parsed \/ out.errors > 0
                    /\ driver' = [After(driver, out,
                                        IF parsed THEN "pragmas" ELSE "serialize",
                                        "serialize")
                                     EXCEPT !.program = parsed /\ ~out.throws]
       ELSE IF driver.opts.isv1
            THEN driver' = [Report(driver, 1) EXCEPT !.pc = "return"]
            ELSE IF driver.opts.loadIRFromJson
                 THEN \E good \in BOOLEAN :
                         driver' = IF good
                                   THEN [driver EXCEPT !.program = TRUE,
                                                       !.pc = "serialize"]
                                   ELSE [Report(driver, 1) EXCEPT !.pc = "return"]
                 ELSE \E out \in Outcomes :
                         driver' = [After(driver, out, "pragmas", "return")
                                       EXCEPT !.program = ~out.throws /\ out.errors = 0]
    /\ driver.errorCount < MaxErrors

\* program->apply(ApplyOptionsPragmas(...)); neither driver tests the error
\* count after it
DriverPragmas ==
    /\ DriverAt("pragmas")
    /\ driver.errorCount < MaxErrors
    /\ \E out \in Outcomes :
          LET next == IF driver.tool = "p4test" /\ driver.opts.parseOnly
                      THEN "serialize" ELSE "frontend"
          IN driver' = After(driver, out, next, next)

\* FrontEnd::run: p4test goes on whatever the error count is (the test comes
\* before serializeP4RuntimeIfRequired), p4c-ebpf returns from compile()
DriverFrontEnd ==
    /\ DriverAt("frontend")
    /\ driver.errorCount < MaxErrors
    /\ \E out \in Outcomes, kept \in BOOLEAN :
          /\ kept \/ out.errors > 0 \/ driver.errorCount > 0
          /\ driver' = [After(driver, out, "serialize",
                              IF driver.tool = "p4test" THEN "serialize" ELSE "return")
                           EXCEPT !.program = kept /\ ~out.throws]

\* serializeP4RuntimeIfRequired: p4test calls it when it holds a program and no
\* error was reported, and goes on to the mid end whatever it reports; p4c-ebpf
\* calls it for an architecture other than "filter" and returns on an error
DriverSerialize ==
    /\ DriverAt("serialize")
    /\ driver.errorCount < MaxErrors
    /\ IF driver.tool = "p4test"
       THEN IF driver.program /\ driver.errorCount = 0
            THEN \E out \in Outcomes :
                    LET next == IF ~driver.opts.parseOnly /\ ~driver.opts.validateOnly
                                THEN "midend" ELSE "backend"
                    IN driver' = After(driver, out, next, next)
            ELSE driver' = [driver EXCEPT !.pc = "return"]
       ELSE IF driver.opts.arch
            THEN \E out \in Outcomes : driver' = After(driver, out, "midend", "return")
            ELSE driver' = [driver EXCEPT !.pc = "midend"]

\* MidEnd::process / MidEnd::run
DriverMidEnd ==
    /\ DriverAt("midend")
    /\ driver.errorCount < MaxErrors
    /\ \E out \in Outcomes :
          driver' = After(driver, out, "backend",
                          IF driver.tool = "p4test" THEN "backend" ELSE "return")

\* p4c-ebpf: run_ebpf_backend; p4test: the JSON dumps, where a mismatch of the
\* round trip under debugJson is an error
DriverBackend ==
    /\ DriverAt("backend")
    /\ driver.errorCount < MaxErrors
    /\ \E out \in Outcomes :
          /\ (driver.tool = "p4test" /\ ~(driver.program /\ driver.opts.debugJson))
                => out.errors = 0
          /\ driver' = After(driver, out, "return", "return")

\* the end of main
DriverReturn ==
    /\ DriverAt("return")
    /\ driver' = [driver EXCEPT !.pc = "done", !.exit = ExitStatus(driver.errorCount)]

\* a driver starts; no visitor of the other sections runs
DriverInit ==
    /\ disc = "Inspector"
    /\ visitDagOnce = TRUE /\ forceClone = FALSE /\ dontForward = FALSE
    /\ heap = <<>> /\ input = <<>> /\ originOf = <<>>
    /\ live = FALSE /\ visited = <<>> /\ stack = <<>>
    /\ prune_flag = FALSE
    /\ phase = "idle"
    /\ bugMsg = ""
    /\ rootResult = Null
    /\ log = <<>>
    /\ lastTry = NoCall /\ lastFin = NoCall
    /\ rewrites = 0 /\ flagOps = 0
    /\ chainLen = 0 /\ ctxtDepth = 0
    /\ BackwardsCompatibleBroken = FALSE
    /\ flow_join_points = <<>> /\ flowOf = <<>> /\ splitNodes = {} /\ filtered = {}
    /\ applies = 0
    /\ NoResolver
    /\ \E tool \in Tools, opts \in DriverOptionSets :
          driver = [tool |-> tool, pc |-> "options", opts |-> opts, errorCount |-> 0,
                    program |-> FALSE, threw |-> FALSE, exit |-> -1]

DriverNext ==
    \/ DriverOptions
    \/ DriverLoad
    \/ DriverPragmas
    \/ DriverFrontEnd
    \/ DriverSerialize
    \/ DriverMidEnd
    \/ DriverBackend
    \/ DriverReturn

DriverSpec == DriverInit /\ [][DriverNext]_vars

(* ---------------------------------------------------------------------- *)
\* C32: when a driver has ended, its exit status is nonzero if and only if the
\* error count is above zero or an exception left a call; an exception is not
\* counted as an error: the handler prints it and returns 1.
DriverDone == driver.tool \in Tools /\ driver.pc = "done"

C32_ExitStatus ==
    DriverDone =>
      /\ driver.exit # 0 <=> (driver.errorCount > 0 \/ driver.threw)
      /\ ~driver.threw => driver.exit = ExitStatus(driver.errorCount)

\* the claim as stated: nonzero exactly when an error was reported, an exception
\* having been turned into one
C32_ExitIffErrors ==
    DriverDone =>
      /\ driver.exit # 0 <=> driver.errorCount > 0
      /\ driver.threw => driver.errorCount > 0

\* a pass threw inside the try block of main with no error reported, and the
\* driver returned 1
C32_Witness ==
    /\ DriverDone /\ driver.threw /\ driver.errorCount = 0 /\ driver.exit = 1


(* ------------------- a pruning preorder of a Transform ------------------- *)
\* the entry of node p as the tracker holds it when Transform::apply_visitor tests
\* done(p): after the hook's own calls on the tracker
StoredAt(op, n, p) == ChangeFlagOp(visited, op, n)[p].result

ReusesDone(op, n, copy, p) ==
    /\ p # Null /\ p # copy
    /\ p \in DOMAIN ChangeFlagOp(visited, op, n)
    /\ ~ChangeFlagOp(visited, op, n)[p].visit_in_progress
    /\ ChangeFlagOp(visited, op, n)[p].visitOnce

\* the step is a preorder call of a Transform: pre is its event
IsPreorderStep ==
    /\ disc = "Transform" /\ phase = "run" /\ stack # <<>> /\ Top.pc = "pre"
    /\ Len(log') > Len(log)
    /\ log'[Len(log) + 1].t = "preorder"

\* the visit of Top.original ended in this step, right after preorder, with
\* final result `final`: no child was visited and postorder was not called
EndsAtOnce(final) ==
    /\ phase' # "bug"
    /\ Len(log') = Len(log) + 2
    /\ log'[Len(log) + 2].t = "ret"
    /\ log'[Len(log) + 2].n = Top.original
    /\ log'[Len(log) + 2].d = Len(stack)
    /\ stack' = CallerAfter(SubSeq(stack, 1, Len(stack) - 1), SlotOf(stack))
    /\ lastFin'.n = Top.original
    /\ lastFin'.final = final
    /\ log'[Len(log) + 2].r = (IF lastFin'.ret THEN final ELSE Top.original)
    /\ IF Len(stack) = 1
       THEN rootResult' = log'[Len(log) + 2].r
       ELSE heap'[stack[Len(stack) - 1].node].kids[SlotOf(stack)] =
                log'[Len(log) + 2].r

PruningPreorder ==
    IsPreorderStep =>
        LET pre == log'[Len(log) + 1]
        IN /\ pre.r = Null =>
                 /\ EndsAtOnce(Null)
                 /\ log'[Len(log) + 2].r = Null
           /\ ReusesDone(pre.a[1], Top.original, Top.node, pre.r) =>
                 EndsAtOnce(StoredAt(pre.a[1], Top.original, pre.r))

\* prune_flag over a visit: a new frame saves it, the frames below keep what
\* they saved, the return of a frame restores it, and a call that returns
\* without a frame (null, Busy, Done) leaves it alone
PruneFlagRestored ==
    disc = "Transform" =>
        /\ Len(stack') = Len(stack) + 1 =>
               stack'[Len(stack')].save_prune = prune_flag
        /\ \A i \in 1..Len(stack) :
               i <= Len(stack') => stack'[i].save_prune = stack[i].save_prune
        /\ Len(stack') = Len(stack) - 1 => prune_flag' = Top.save_prune
        /\ (Len(stack') = Len(stack) /\ Len(log') > Len(log)
              /\ log'[Len(log')].t = "ret") => prune_flag' = prune_flag

\* C33: in a Transform, a preorder that returns null ends the visit at once with
\* a null result that empties the parent's slot; a preorder that returns a node
\* already Done ends it at once with that node's stored result; no child is
\* visited and postorder is not called in either case; and when a visit ends
\* prune_flag has the value it had when the visit began
C33_PrunedByPreorder == [][PruningPreorder /\ PruneFlagRestored]_vars

\* a preorder returned a Done node whose stored result is another node, and the
\* visit ended at once with that result
C33_Witness ==
    /\ disc = "Transform" /\ phase = "run"
    /\ Len(log) >= 2
    /\ log[Len(log)].t = "ret"
    /\ log[Len(log) - 1].t = "preorder"
    /\ log[Len(log) - 1].a[4]
    /\ log[Len(log)].r # log[Len(log) - 1].r
    /\ log[Len(log)].r # Null
    /\ log[Len(log)].r # log[Len(log)].n


(* ------------------- visitOnce() / visitAgain() in a hook ----------------- *)
\* the visitor's flag-changing call on its tracker
FlagCall(v, op, n) ==
    IF disc = "Inspector" THEN InspectorFlagOp(v, op, n) ELSE ChangeFlagOp(v, op, n)

VisitOpen(n) ==
    IF disc = "Inspector" THEN ~visited[n].done ELSE visited[n].visit_in_progress

\* the positions in the log of the hook calls on n that called visitOnce() or
\* visitAgain()
FlagCallsOn(n) ==
    {i \in 1..Len(log) : /\ log[i].t = "preorder"
                         /\ log[i].n = n
                         /\ log[i].a[1] \in {"visitOnce", "visitAgain"}}

LastFlagCallOn(n) == CHOOSE i \in FlagCallsOn(n) : \A k \in FlagCallsOn(n) : k <= i

\* revisit_visited() was called after position i of the log
ForgottenSince(i) ==
    \E k \in (i + 1)..Len(log) :
        log[k].t = "preorder" /\ log[k].a[1] = "revisit_visited"

\* the step is apply_visitor(n) up to try_start, on a node n whose visit is not
\* in progress
EncounterStep(n) ==
    /\ disc \in {"Inspector", "Modifier", "Transform"}
    /\ CanCall /\ Pending.n = n
    /\ Len(log') > Len(log)
    /\ log'[Len(log) + 1].t = "enter"
    /\ n \in DOMAIN visited
    /\ ~VisitOpen(n)

FlagDecides ==
    \A n \in 1..Len(heap) :
        (EncounterStep(n) /\ FlagCallsOn(n) # {}
           /\ ~ForgottenSince(LastFlagCallOn(n))) =>
            IF log[LastFlagCallOn(n)].a[1] = "visitOnce"
            THEN /\ lastTry'.n = n /\ lastTry'.status = "Done"
                 /\ Len(log') = Len(log) + 3
                 /\ log'[Len(log) + 2].t = "revisit"
                 /\ log'[Len(log) + 3].t = "ret"
                 /\ stack' = CallerAfter(stack, Pending.name)
            ELSE /\ lastTry'.n = n /\ lastTry'.status = "Revisit"
                 /\ Len(log') = Len(log) + 1
                 /\ Len(stack') = Len(stack) + 1
                 /\ stack'[Len(stack')].original = n
                 /\ stack'[Len(stack')].pc = "pre"

\* a visit that was entered goes on with preorder, a revisit hook or a loop hook
\* on the same node
EnterThenHook ==
    \A j \in 1..(Len(log) - 1) :
        log[j].t = "enter" =>
            /\ log[j + 1].t \in {"preorder", "revisit", "loop_revisit"}
            /\ log[j + 1].n = log[j].n

\* visitOnce()/visitAgain() on the tracker: one flag of one entry
FlagCallLocal ==
    \A n \in DOMAIN visited : \A op \in {"visitOnce", "visitAgain"} :
        /\ DOMAIN FlagCall(visited, op, n) = DOMAIN visited
        /\ \A m \in DOMAIN visited :
               FlagCall(visited, op, n)[m] =
                   IF m = n
                   THEN [visited[m] EXCEPT !.visitOnce = (op = "visitOnce")]
                   ELSE visited[m]

\* a preorder that made the call and went on to the children: the tracker differs
\* in the flag of the node visited (and in the entry of a substitute taken up)
FlagCallStep ==
    (/\ disc \in {"Inspector", "Modifier", "Transform"}
     /\ phase = "run" /\ stack # <<>> /\ Top.pc = "pre"
     /\ Len(log') = Len(log) + 1
     /\ log'[Len(log')].t = "preorder"
     /\ log'[Len(log')].a[1] \in {"visitOnce", "visitAgain"}
     /\ phase' = "run") =>
        /\ visited'[Top.original] =
               [visited[Top.original] EXCEPT
                   !.visitOnce = (log'[Len(log')].a[1] = "visitOnce")]
        /\ \A m \in DOMAIN visited \ {Top.original, log'[Len(log')].r} :
               visited'[m] = visited[m]

\* C34: after visitAgain() in the visit of n every later encounter of n is a
\* fresh visit (Revisit, preorder next) and after visitOnce() every later
\* encounter is a Done revisit (revisit hook, no frame), whatever visitDagOnce
\* is; the call changes nothing but that flag of that entry
C34_FlagPerNode ==
    [][FlagDecides /\ EnterThenHook /\ FlagCallLocal /\ FlagCallStep]_vars

\* a node was revisited although visitDagOnce is set, after its hook called
\* visitAgain()
C34_Witness ==
    /\ disc \in {"Modifier", "Transform"} /\ visitDagOnce
    /\ \E i \in 1..Len(log), j \in 1..Len(log), k \in 1..Len(log) :
          /\ i < j /\ j < k
          /\ log[i].t = "preorder" /\ log[i].a[1] = "visitAgain"
          /\ log[j].t = "enter" /\ log[j].n = log[i].n
          /\ log[k].t = "preorder" /\ log[k].n = log[i].n


(* ------------- a Transform whose hooks rewrite more than once ------------- *)
\* the rewriting hook calls of one pass
MaxSubstRewrites == 2

\* a Transform that forwards children (the default)
SubstInit == Init /\ disc = "Transform" /\ ~dontForward

SubstPreorder == TransformPreorderWith(MaxSubstRewrites)

SubstPostorder == TransformPostorderWith(MaxSubstRewrites)

SubstNext ==
    \/ TransformInitApply
    \/ TransformEnter
    \/ SubstPreorder
    \/ SubstPostorder

SubstSpec == SubstInit /\ [][SubstNext]_vars

\* the last visit to end was one of a substitute: finish(n, final) and then
\* finish(p, final) were called
SubstituteFinished ==
    /\ disc = "Transform"
    /\ lastFin.n # Null
    /\ lastFin.first.n # Null

\* finish(n, final) found nothing changed: final is a node equal to n that has no
\* entry of its own, and forceClone is off
NothingChanged(n, final, before, h) ==
    /\ ~forceClone
    /\ final # Null
    /\ NodeEq(h, final, n)
    /\ final \notin DOMAIN before

\* the tracker after the two finish calls
SubstituteEntries ==
    SubstituteFinished =>
        LET n == lastFin.first.n
            p == lastFin.n
            v == lastFin.after
        IN /\ ~v[n].visit_in_progress
           /\ ~v[p].visit_in_progress
           /\ v[p].result = lastFin.final
           /\ v[n].result =
                 IF NothingChanged(n, lastFin.final, lastFin.first.before,
                                   lastFin.heap)
                 THEN lastFin.first.before[n].result
                 ELSE lastFin.final

\* apply_visitor on a node that is Done returns the stored result at once
DoneReplaces ==
    (/\ disc = "Transform" /\ CanCall /\ Pending.n # Null
     /\ ChangeTrackerDone(visited, Pending.n)) =>
        /\ Len(log') = Len(log) + 3
        /\ log'[Len(log) + 2].t = "revisit"
        /\ log'[Len(log) + 3].t = "ret"
        /\ log'[Len(log) + 3].r = visited[Pending.n].result
        /\ stack' = CallerAfter(stack, Pending.name)
        /\ heap' = SetSlot(heap, stack, Pending.slot, visited[Pending.n].result)

\* C35 (as the code has it): after a Transform visit in which preorder replaced
\* n by a substitute p visited through an extra clone, neither is in progress,
\* p's entry holds the final result, and n's entry holds it too unless finish
\* found nothing changed for n (the final result equals n, forceClone off): then
\* n keeps the result it had; a later occurrence of a Done node is replaced by
\* its stored result without a visit
C35_SubstituteEntries == [][SubstituteEntries /\ DoneReplaces]_vars

\* C35 (as stated): after such a visit the tracker holds the same final result
\* for n and for p
C35_SameResult ==
    SubstituteFinished =>
        lastFin.after[lastFin.first.n].result = lastFin.after[lastFin.n].result

\* a substitute whose clone was rewritten back into a node equal to n: p's entry
\* holds the clone, n's entry still holds n
C35_Witness ==
    /\ SubstituteFinished
    /\ phase = "run"
    /\ NothingChanged(lastFin.first.n, lastFin.final, lastFin.first.before,
                      lastFin.heap)
    /\ lastFin.after[lastFin.n].result = lastFin.final
    /\ lastFin.after[lastFin.first.n].result = lastFin.first.n


(* ------------------------- a removed node ------------------------------- *)
\* the pass visits each node once: visitDagOnce is set and no hook has called
\* visitAgain() or revisit_visited()
VisitsOnce ==
    /\ visitDagOnce
    /\ \A i \in 1..Len(log) :
           log[i].t = "preorder" => log[i].a[1] \notin {"visitAgain", "revisit_visited"}

\* apply_visitor(n) has returned null already in this pass
RemovedBefore(n) ==
    \E i \in 1..Len(log) : log[i].t = "ret" /\ log[i].n = n /\ log[i].r = Null

\* the call about to be made is on a node that was removed: it takes the Done
\* branch, calls the revisit hook with null and returns null to the slot
RemovedAgain ==
    (/\ disc \in {"Modifier", "Transform"}
     /\ VisitsOnce
     /\ CanCall /\ Pending.n # Null
     /\ RemovedBefore(Pending.n)) =>
        /\ lastTry'.n = Pending.n /\ lastTry'.status = "Done"
        /\ Len(log') = Len(log) + 3
        /\ log'[Len(log) + 1].t = "enter"
        /\ log'[Len(log) + 2].t = "revisit"
        /\ log'[Len(log) + 2].n = Pending.n
        /\ log'[Len(log) + 2].r = Null
        /\ log'[Len(log) + 3].t = "ret"
        /\ log'[Len(log) + 3].r = Null
        /\ stack' = CallerAfter(stack, Pending.name)
        /\ heap' = SetSlot(heap, stack, Pending.slot, Null)

\* no call on a node returns a node after a call on it returned null, and
\* preorder is not called on it again
RemovedEverywhere ==
    (disc \in {"Modifier", "Transform"} /\ VisitsOnce) =>
        \A i \in 1..Len(log) : \A j \in 1..Len(log) :
            (/\ i < j
             /\ log[i].t = "ret" /\ log[i].r = Null
             /\ log[j].n = log[i].n) =>
                /\ log[j].t \in {"enter", "revisit", "ret"}
                /\ log[j].t = "ret" => log[j].r = Null

\* C36: with visitDagOnce set, once a Transform or Modifier pass has finished n
\* with a null result, every later occurrence of n is replaced by null through
\* the Done branch (revisit hook with null, no preorder): n is not removed at one
\* occurrence and kept at a later one
C36_RemovedStaysRemoved == [][RemovedAgain /\ RemovedEverywhere]_vars

\* a shared node was removed by a hook at its first occurrence and replaced by
\* null through the revisit hook at its second
C36_Witness ==
    /\ disc = "Transform" /\ VisitsOnce
    /\ \E i \in 1..Len(log), j \in 1..Len(log), k \in 1..Len(log) :
          /\ i < j /\ j < k
          /\ log[i].t \in {"preorder", "postorder"} /\ log[i].r = Null
          /\ log[j].t = "revisit" /\ log[j].n = log[i].n /\ log[j].r = Null
          /\ log[k].t = "ret" /\ log[k].n = log[i].n /\ log[k].r = Null
          /\ log[k].d = log[j].d


(* ------------------ duplicates inside one namespace ---------------------- *)
\* the preorder calls of the resolver on the namespaces checkShadowing is run on
ScopeEvents ==
    {i \in DOMAIN log :
        /\ log[i].t = "preorder"
        /\ heap[log[i].n].type \in {"P4Control", "Function", "ParserState",
                                    "Type_Struct", "Type_Extern", "BlockStatement"}}

Overloadable(d) == heap[d].type \in {"Method", "Function"}

\* the pairs of declarations made directly in ns under one name
DuplicatePairs(ns) ==
    {pr \in Elems(DeclsOf(heap, ns)) \X Elems(DeclsOf(heap, ns)) :
        pr[1] # pr[2] /\ heap[pr[1]].name = heap[pr[2]].name}

\* C37: with shadow checking on, two declarations of one name made directly in
\* one namespace are reported with WARN_SHADOWING when at least one of them is
\* not a Method or Function, in whichever order they stand; two Methods or
\* Functions are not reported; a StructField is never reported
C37_IntraScopeDuplicates ==
    (disc = "Resolver" /\ checkShadow) =>
        \A i \in ScopeEvents :
            \A pr \in DuplicatePairs(log[i].n) :
                IF heap[pr[1]].type = "StructField" \/ heap[pr[2]].type = "StructField"
                   \/ (Overloadable(pr[1]) /\ Overloadable(pr[2]))
                THEN ShadowDiags(log[i].k, pr[1], pr[2]) = {}
                ELSE ShadowDiags(log[i].k, pr[1], pr[2]) # {}
                        \/ ShadowDiags(log[i].k, pr[2], pr[1]) # {}


(* ------------------- lookup in a nested namespace ------------------------ *)
\* what lookup finds among the declarations made directly in ns
OwnResult(ctx, ns, name, type) ==
    IF heap[ns].type \in GeneralNamespaces
    THEN SelectSeq(LookupGeneral(heap, ctx, anyOrder, ns, name, type).decls,
                   LAMBDA d : d \in Elems(DeclsOf(heap, ns)))
    ELSE LookupSimple(heap, ctx, anyOrder, ns, name, type).decls

\* the inner namespaces of ns, by their place in the list, whose lookup is not
\* empty
InnerHits(ctx, ns, name, type) ==
    {i \in DOMAIN NestedOf(heap, ns) :
        lookup(heap, ctx, anyOrder, NestedOf(heap, ns)[i], name, type).decls # <<>>}

\* C38: lookup on a nested namespace whose own declarations yield no match
\* returns the lookup result of the last inner namespace of the list that has
\* one (the later one wins), and nothing only when every inner namespace is
\* empty for the name
C38_NestedReverse ==
    OnName =>
      \A ns \in NamespacesIn(heap), type \in ResolutionTypes :
        (/\ NestedOf(heap, ns) # <<>>
         /\ OwnResult(CtxOf(stack), ns, NameOf(heap, Top.original), type) = <<>>) =>
            LET name == NameOf(heap, Top.original)
                hits == InnerHits(CtxOf(stack), ns, name, type)
                rv == lookup(heap, CtxOf(stack), anyOrder, ns, name, type).decls
            IN IF hits = {}
               THEN rv = <<>>
               ELSE rv = lookup(heap, CtxOf(stack), anyOrder,
                                NestedOf(heap, ns)[Highest(hits)], name, type).decls

\* a control whose type parameters and parameters both declare x: the lookup of
\* x in the control yields the parameter, from the later list
C38_Witness ==
    /\ OnName /\ heap[Top.original].name = "x"
    /\ \E ns \in NamespacesIn(heap) :
          /\ heap[ns].type = "P4Control"
          /\ OwnResult(CtxOf(stack), ns, NameOf(heap, Top.original), "Any") = <<>>
          /\ Cardinality(InnerHits(CtxOf(stack), ns, NameOf(heap, Top.original),
                                   "Any")) = 2
          /\ \E d \in DOMAIN heap :
                /\ heap[d].type = "Parameter"
                /\ lookup(heap, CtxOf(stack), anyOrder, ns,
                          NameOf(heap, Top.original), "Any").decls = <<d>>


(* ---------------------- the arguments of a call -------------------------- *)
IsCall(n) == heap[n].type \in {"MethodCallStatement", "MethodCallExpression"}

IsInstance(n) == heap[n].type = "Declaration_Instance"

\* the call or instantiation n goes by the name nm: its callee's member or path,
\* the instance's own name or the name of its type
GoesBy(n, nm) ==
    \/ IsCall(n) /\ nm \in CalleeNames(heap, CallOf(heap, n))
    \/ IsInstance(n) /\ (heap[n].name = nm \/ nm \in InstanceTypeNames(heap, n))

CallNames == {"x", "y"}

AsName(nm) == [NameOf(heap, Top.original) EXCEPT !.name = nm]

\* the frames at which a walk from the current node outward ends: a call, an
\* instantiation, or a node that is neither an Expression nor a Type
WalkEnds(ctx) ==
    {i \in DOMAIN ctx :
        IsCall(ctx[i]) \/ IsInstance(ctx[i])
           \/ heap[ctx[i]].type \notin Expressions \cup Types}

\* C39 (as the code has it): methodArguments(name) walks outward from the
\* current node through Expression and Type frames to the first call or
\* instantiation and returns its arguments if it goes by the name; it returns
\* null when the walk ends elsewhere or that nearest call or instantiation goes
\* by another name, whatever stands further out
C39_NearestCall ==
    OnName =>
      \A nm \in CallNames :
        LET ctx == CtxOf(stack)
            rv == methodArguments(heap, ctx, AsName(nm))
        IN IF WalkEnds(ctx) = {}
           THEN rv = Null
           ELSE IF GoesBy(ctx[Highest(WalkEnds(ctx))], nm)
                THEN rv = ctx[Highest(WalkEnds(ctx))]
                ELSE rv = Null

\* the calls and instantiations that go by nm and are reached from the current
\* node through Expression and Type frames only
MatchingOnWalk(ctx, nm) ==
    {i \in DOMAIN ctx :
        /\ GoesBy(ctx[i], nm)
        /\ \A j \in (i + 1)..Len(ctx) : heap[ctx[j]].type \in Expressions \cup Types}

\* C39 (as stated): methodArguments(name) returns the arguments of the nearest
\* enclosing call or instantiation that goes by the name and is null only when
\* there is none on the walk: a nearer call of another name hides nothing
C39_NearestMatching ==
    OnName =>
      \A nm \in CallNames :
        LET ctx == CtxOf(stack)
            rv == methodArguments(heap, ctx, AsName(nm))
        IN IF MatchingOnWalk(ctx, nm) = {}
           THEN rv = Null
           ELSE rv = ctx[Highest(MatchingOnWalk(ctx, nm))]

\* the name x stands in the callee of a call of y that is itself the callee
\* expression of a call of x: no arguments are found for x
C39_Witness ==
    /\ OnName /\ heap[Top.original].name = "x"
    /\ methodArguments(heap, CtxOf(stack), AsName("x")) = Null
    /\ MatchingOnWalk(CtxOf(stack), "x") # {}
    /\ WalkEnds(CtxOf(stack)) # {}
    /\ IsCall(CtxOf(stack)[Highest(WalkEnds(CtxOf(stack)))])
    /\ GoesBy(CtxOf(stack)[Highest(WalkEnds(CtxOf(stack)))], "y")


(* ------------------------ match kinds ------------------------------------ *)
\* the match_kind groups of the program above the current node, in the order of
\* the program's objects; none when no program is above it
MatchKindGroups(ctx) ==
    LET progs == {i \in 1..(Len(ctx) - 1) : heap[ctx[i]].type = "P4Program"}
    IN IF progs = {} THEN <<>>
       ELSE SelectSeq(heap[ctx[Highest(progs)]].kids,
                      LAMBDA k : heap[k].type = "Declaration_MatchKind")

\* the members named nm of a group
MembersNamed(g, nm) == SelectSeq(heap[g].kids, LAMBDA d : heap[d].name = nm)

\* the groups, by their place, that declare nm
Declaring(ctx, nm) ==
    {i \in DOMAIN MatchKindGroups(ctx) : MembersNamed(MatchKindGroups(ctx)[i], nm) # <<>>}

Lowest(S) == CHOOSE i \in S : \A j \in S : i <= j

\* the members named nm of all the groups, in order
RECURSIVE AllMembersNamed(_, _, _)
AllMembersNamed(groups, i, nm) ==
    IF i > Len(groups) THEN <<>>
    ELSE MembersNamed(groups[i], nm) \o AllMembersNamed(groups, i + 1, nm)

MatchKindNames == {"x", "y", "z"}

KeyEvents == {i \in DOMAIN log : log[i].t = "key"}

\* the match type of the key of event i
MatchTypeOf(i) == heap[log[i].n].kids[3]

InResolver == disc = "Resolver" /\ phase = "run" /\ stack # <<>>

UseOf(nm) == [name |-> nm, pos |-> Pos.use, node |-> Top.original]

\* C40 (as the code has it): lookupMatchKind(name) goes through the match_kind
\* groups of the enclosing program in order and returns the declaration of the
\* first group that declares the name, so a name declared in two groups yields
\* one candidate and the key's match type is bound to it without an error; it
\* returns nothing when no group declares the name or no program encloses the
\* node
C40_FirstGroup ==
    /\ InResolver =>
         \A nm \in MatchKindNames :
            LET ctx == CtxOf(stack)
                rv == lookupMatchKind(heap, ctx, anyOrder, UseOf(nm)).decls
            IN IF Declaring(ctx, nm) = {}
               THEN rv = <<>>
               ELSE rv = <<MembersNamed(MatchKindGroups(ctx)[Lowest(Declaring(ctx, nm))],
                                        nm)[1]>>
    /\ disc = "Resolver" =>
         \A i \in KeyEvents :
            LET ctx == log[i].a.ctx
                nm == heap[MatchTypeOf(i)].name
            IN IF Declaring(ctx, nm) = {}
               THEN /\ log[i].r = Null
                    /\ \E j \in DOMAIN log[i].k : log[i].k[j].code = "ERR_NOT_FOUND"
               ELSE /\ log[i].r =
                          MembersNamed(MatchKindGroups(ctx)[Lowest(Declaring(ctx, nm))],
                                       nm)[1]
                    /\ log[i].k = <<>>

\* C40 (as stated): lookupMatchKind(name) returns every declaration of the name
\* across the groups, and a key whose match type is declared in two groups is
\* reported as having multiple matching declarations
C40_AllGroups ==
    /\ InResolver =>
         \A nm \in MatchKindNames :
            lookupMatchKind(heap, CtxOf(stack), anyOrder, UseOf(nm)).decls =
               AllMembersNamed(MatchKindGroups(CtxOf(stack)), 1, nm)
    /\ disc = "Resolver" =>
         \A i \in KeyEvents :
            Cardinality(Declaring(log[i].a.ctx, heap[MatchTypeOf(i)].name)) > 1 =>
               \E j \in DOMAIN log[i].k : log[i].k[j].code = "ERR_DUPLICATE"

\* a key whose match type x is declared by both groups was bound to the member
\* of the first group, and nothing was reported
C40_Witness ==
    /\ disc = "Resolver"
    /\ \E i \in KeyEvents :
          /\ Cardinality(Declaring(log[i].a.ctx, heap[MatchTypeOf(i)].name)) = 2
          /\ log[i].r # Null
          /\ log[i].r \in Elems(heap[MatchKindGroups(log[i].a.ctx)[1]].kids)
          /\ log[i].k = <<>>
          /\ MatchTypeOf(i) \in DOMAIN refMap.decls

====
